---- MODULE Spec2Model ----
(***************************************************************************)
(* Verification model of the mergen download engine core.                  *)
(*                                                                         *)
(*   Part I   queue scheduler      src/src/core/queue_manager.py           *)
(*            with the item operations of src/src/gui/main_window.py that  *)
(*            feed it (update_download_status, move_to_queue,              *)
(*            delete_download, stop_download)                              *)
(*   Part II  segmented downloader src/src/core/downloader.py              *)
(*   Part III download registry    src/src/core/download_manager.py        *)
(*   Part IV  yt-dlp process       src/src/core/ytdlp_wrapper.py           *)
(*   Part V   HTTP ingress         src/src/core/browser_integration.py     *)
(*   Part VI  URL and file names   src/src/core/downloader.py (prepare)    *)
(*   Part VII network manager      src/src/core/network.py                 *)
(*   Part VIII segment monitor     src/src/core/segment_monitor.py         *)
(*                                                                         *)
(* Spec   is the specification of the queue scheduler,                     *)
(* SpecDL is the specification of one URL's download runs,                 *)
(* SpecRegistry is the specification of the download registry.             *)
(***************************************************************************)
EXTENDS Integers, Sequences, FiniteSets, TLC

VARIABLES
    \* ---- Part I : QueueManager and the registry list it is handed ----
    queues,                 \* config["queues"] as a dict: name -> settings
    legacy,                 \* TRUE while config["queues"] is the legacy list
    active_queues,          \* QueueManager.active_queues
    active_downloads,       \* keys of QueueManager.active_downloads
    max_concurrent_global,  \* QueueManager.max_concurrent_global
    timers,                 \* keys of QueueManager.timers
    downloads,              \* MainWindow.downloads, a list of items
    nextId,                 \* number of items created so far (ids are unique)
    edits,                  \* number of move, stop and delete calls so far
    dispatched,             \* the items the last operation handed to start_callback, in call order
    lastOp,                 \* the last operation and its arguments
    \* ---- Part II : one URL, its server, its files, its Downloader ----
    srv_size,               \* size of the resource on the server
    srv_ranges,             \* TRUE iff the server honors Range requests
    worker_count,           \* Downloader.worker_count
    running,                \* Downloader.running
    total_size,             \* Downloader.total_size
    segments,               \* Downloader.segments
    downloaded_total,       \* Downloader.downloaded_total
    part_file,              \* the file temp_filename
    target_file,            \* the file filename
    state_file,             \* the file state_file
    pc,                     \* where Downloader.start() is
    workers,                \* the download_segment call of every segment
    done_cb,                \* the completion_callback calls of this run
    runs,                   \* Downloader objects constructed for the URL
    url,                    \* Downloader.url
    progress_cb,            \* the progress_callback calls of this run: bytes reported
    item_status,            \* status of the list item the run belongs to
    resume_log,             \* the branch load_resume_state took in this run
    \* ---- Part III : DownloadManager and its state file ----
    registry,               \* DownloadManager.downloads: id -> item
    registry_file,          \* the file DownloadManager.state_file
    registry_tmp,           \* the file state_file.with_suffix(".tmp")
    registry_bak,           \* the file state_file.with_suffix(".bak"), by its ids
    lastAdd,                \* the last add_download call: item before, id returned
    \* ---- Part IV : one YtDlpProcess, its tool process and its caller ----
    yt_pc,                  \* position of the thread inside YtDlpProcess.start
    yt_state,               \* YtDlpProcess.state
    retry_count,            \* YtDlpProcess.retry_count
    process,                \* YtDlpProcess.process and the tool process behind it
    yt_cb,                  \* the completion_callback calls of start()
    yt_terminated,          \* terminate() was called by the user on a live tool
    yt_call,                \* the last call of the user's thread and what it returned
    \* ---- Part V : the HTTP ingress of the browser integration ----
    main_window,            \* MergenHTTPHandler.main_window
    http_pc,                \* position of the server thread in the handler
    http_req,               \* the request being handled
    http_resp,              \* what the handler has written to the connection
    ui_queue,               \* queued invokeMethod calls the UI thread has not run
    ui_started,             \* URLs whose add_download the UI thread has run
    http_count,             \* requests received
    \* ---- Part VI : the URL and the file names of one Downloader ----
    prep_pc,                \* position inside Downloader.prepare
    url_text,               \* Downloader.url, as text
    save_dir,               \* Downloader.save_dir
    filename,               \* Downloader.filename
    temp_filename,          \* Downloader.temp_filename
    part_path,              \* the path at which prepare created the part file
    \* ---- Part VII : one NetworkManager and its callers ----
    _state,                 \* NetworkManager._state
    _state_callbacks,       \* NetworkManager._state_callbacks
    notified,               \* the callback calls made so far, in call order
    retry_pc,               \* position inside retry_with_backoff
    retry_max,              \* the max_retries argument of the call
    attempt,                \* the loop variable of retry_with_backoff
    func_calls,             \* the calls of func made by this call, by their outcome
    retry_result,           \* what retry_with_backoff returned or raised
    slept,                  \* the delays passed to time.sleep, in call order
    \* ---- Part VIII : one SegmentMonitor over the segment list ----
    split_calls             \* the _split_segment calls of the last _optimize_segments

varsQ == <<queues, legacy, active_queues, active_downloads,
           max_concurrent_global, timers, downloads, nextId, edits,
           dispatched, lastOp>>
varsDL == <<srv_size, srv_ranges, worker_count, running, total_size, segments,
            downloaded_total, part_file, target_file, state_file, pc, workers,
            done_cb, runs, url, progress_cb, item_status, resume_log>>
varsReg == <<registry, registry_file, registry_tmp, registry_bak, lastAdd>>
varsYt == <<yt_pc, yt_state, retry_count, process, yt_cb, yt_terminated, yt_call>>
varsHttp == <<main_window, http_pc, http_req, http_resp, ui_queue, ui_started,
              http_count>>
varsPrep == <<prep_pc, url_text, save_dir, filename, temp_filename, part_path>>
varsNet == <<_state, _state_callbacks, notified, retry_pc, retry_max, attempt,
             func_calls, retry_result, slept>>
varsMon == <<split_calls>>
vars == <<queues, legacy, active_queues, active_downloads,
          max_concurrent_global, timers, downloads, nextId, edits,
          dispatched, lastOp, srv_size, srv_ranges, worker_count, running,
          total_size, segments, downloaded_total, part_file, target_file,
          state_file, pc, workers, done_cb, runs, url, progress_cb,
          item_status, resume_log, registry, registry_file, registry_tmp,
          registry_bak, lastAdd, yt_pc, yt_state, retry_count, process, yt_cb,
          yt_terminated, yt_call, main_window, http_pc, http_req, http_resp, ui_queue,
          ui_started, http_count, prep_pc, url_text, save_dir, filename,
          temp_filename, part_path, _state, _state_callbacks, notified,
          retry_pc, retry_max, attempt, func_calls, retry_result, slept,
          split_calls>>

Min(a, b) == IF a <= b THEN a ELSE b
Max(a, b) == IF a >= b THEN a ELSE b
None == "None"
\* the value None where a datetime or its isoformat string is expected
NoTime == <<>>

(***************************************************************************)
(*                      Part I : the queue scheduler                       *)
(***************************************************************************)

\* ---- bounds of the explored inputs ----
MaxItems == 2           \* items ever created
MaxEdits == 1           \* move_to_queue, stop_download and delete_download calls
SchedMaxItems == 1      \* items ever created, in the schedule specification
OtherQueues == {"Q1"}   \* names the user may give to new queues
GlobalCaps == {1, 3}    \* values of config["max_concurrent_downloads"]
SpinnerCaps == {1}      \* values the concurrency spinner is set to
\* datetimes, as [day, hour * 60 + minute]: the values of the two schedule
\* pickers and the values datetime.now() takes at a tick
StartTimes == {[day |-> 1, hm |-> 600]}
StopTimes == {[day |-> 1, hm |-> 600], [day |-> 1, hm |-> 601]}
ClockTimes == {[day |-> 2, hm |-> 600], [day |-> 2, hm |-> 601], [day |-> 2, hm |-> 602]}

\* the max_concurrent every settings lookup falls back to
DefaultQueueCap == 3

\* the module-level name DEFAULT_QUEUE_NAME is bound to a function object;
\* this is the value the name evaluates to when it is not called
DEFAULT_QUEUE_NAME == "<function DEFAULT_QUEUE_NAME>"
\* the name of the default queue: ConfigManager.defaults["queues"]
MainQueue == "Main Queue"
QueueNames == {MainQueue} \cup OtherQueues

\* I18n.get(key) for the status keys, English table
I18n_get(key) ==
    CASE key = "complete" -> "Complete"
      [] key = "failed" -> "Failed"
      [] key = "main_queue" -> MainQueue
      [] OTHER -> key

\* the settings dict create_queue stores, and the one the legacy branch of
\* get_queue_settings returns
NewSettings(cap) ==
    [max_concurrent |-> cap, schedule_enabled |-> FALSE,
     schedule_start |-> NoTime, schedule_stop |-> NoTime]

\* datetime.isoformat and datetime.fromisoformat; None stays None
isoformat(t) == IF t = NoTime THEN NoTime ELSE <<t.day, t.hm \div 60, t.hm % 60>>
fromisoformat(str) == IF str = NoTime THEN NoTime
                      ELSE [day |-> str[1], hm |-> str[2] * 60 + str[3]]

\* QueueManager.get_queues
get_queues == DOMAIN queues

\* QueueManager.get_queue_settings, as a total record: a key the dict lacks
\* reads as the default of the .get() that reads it
SettingsOf(qs, lg, name) ==
    IF lg THEN NewSettings(DefaultQueueCap)
    ELSE IF name \in DOMAIN qs THEN qs[name]
    ELSE NewSettings(DefaultQueueCap)
get_queue_settings(name) == SettingsOf(queues, legacy, name)

\* LegacyDownloadItem.__init__; the creation counter is the clock of added_at
NewItem(id, queue) ==
    [id |-> id, queue |-> queue, status |-> "Pending", queue_position |-> 0,
     added_at |-> id]

\* ---- _process_queue ----
EligibleStatuses == {"Pending", "Stopped", "Failed", "Queued"}
DownloadingStatuses == {"Downloading", "Downloading..."}

\* [d for d in seq if P(d)], in list order
RECURSIVE SelectQueue(_, _)
SelectQueue(seq, name) ==
    IF seq = <<>> THEN <<>>
    ELSE IF Head(seq).queue = name
         THEN <<Head(seq)>> \o SelectQueue(Tail(seq), name)
         ELSE SelectQueue(Tail(seq), name)

RECURSIVE SelectPending(_)
SelectPending(seq) ==
    IF seq = <<>> THEN <<>>
    ELSE IF Head(seq).status \in EligibleStatuses
         THEN <<Head(seq)>> \o SelectPending(Tail(seq))
         ELSE SelectPending(Tail(seq))

\* (mutation of InsertByPosition: a sort that is not stable)
RECURSIVE InsertByPosition_unstable(_, _)
InsertByPosition_unstable(sorted, d) ==
    IF sorted = <<>> THEN <<d>>
    ELSE IF Head(sorted).queue_position < d.queue_position
         THEN <<Head(sorted)>> \o InsertByPosition_unstable(Tail(sorted), d)
         ELSE <<d>> \o sorted

\* list.sort(key=queue_position): a stable sort, equal keys keep list order
RECURSIVE InsertByPosition(_, _)
InsertByPosition(sorted, d) ==
    IF sorted = <<>> THEN <<d>>
    ELSE IF Head(sorted).queue_position <= d.queue_position
         THEN <<Head(sorted)>> \o InsertByPosition(Tail(sorted), d)
         ELSE <<d>> \o sorted

RECURSIVE SortByPosition(_)
SortByPosition(seq) ==
    IF seq = <<>> THEN <<>>
    ELSE InsertByPosition(SortByPosition(SubSeq(seq, 1, Len(seq) - 1)), seq[Len(seq)])

\* active_in_queue of _process_queue
ActiveInQueue(ds, act, name) ==
    Cardinality({i \in DOMAIN ds :
        /\ ds[i].queue = name
        /\ (ds[i].status \in DownloadingStatuses \/ ds[i].id \in act)})

\* (mutation of CanStart: the global limit is not consulted)
CanStart_noglobal(qs, lg, ds, act, name) ==
    SettingsOf(qs, lg, name).max_concurrent - ActiveInQueue(ds, act, name)

\* can_start of _process_queue
CanStart(qs, lg, ds, act, name) ==
    Min(SettingsOf(qs, lg, name).max_concurrent - ActiveInQueue(ds, act, name),
        max_concurrent_global - Cardinality(act))

\* the items _process_queue hands to start_callback, in call order
ToStart(qs, lg, aq, ds, act, name) ==
    IF name \notin aq THEN <<>>
    ELSE IF CanStart(qs, lg, ds, act, name) <= 0 THEN <<>>
    ELSE LET pending == SortByPosition(SelectPending(SelectQueue(ds, name)))
         IN SubSeq(pending, 1, Min(CanStart(qs, lg, ds, act, name), Len(pending)))

Ids(seq) == {seq[i].id : i \in DOMAIN seq}

\* MainWindow.start_download_item, applied to every started item
StartItems(ds, started) ==
    [i \in DOMAIN ds |->
        IF ds[i].id \in Ids(started) THEN [ds[i] EXCEPT !.status = "Downloading..."]
        ELSE ds[i]]

\* _process_queue as a function of the state it reads
\* (the list of started items is computed once and bound as a value)
ProcessQueue(qs, lg, aq, ds, act, name) ==
    CHOOSE r \in {[downloads |-> StartItems(ds, started),
                   active_downloads |-> act \cup Ids(started),
                   dispatched |-> started] :
                     started \in {ToStart(qs, lg, aq, ds, act, name)}} : TRUE

\* the last operation: its name, its queue argument, what it returned or
\* raised, and for a timer tick the hour and minute of datetime.now()
Op(op, name, ret) == [op |-> op, name |-> name, ret |-> ret, now |-> 0 - 1]
TickOp(name, ret, now) == [op |-> "_check_schedule", name |-> name, ret |-> ret, now |-> now.hm]

\* ---- state after construction: first run, default config ----
\* (the downloader of Part II, constructed and not started)
InitIdle ==
    /\ srv_size = 0
    /\ srv_ranges = TRUE
    /\ worker_count = 1
    /\ running = TRUE
    /\ total_size = 0
    /\ segments = <<>>
    /\ downloaded_total = 0
    /\ part_file = [exists |-> FALSE, size |-> 0, data |-> <<>>]
    /\ target_file = [exists |-> FALSE, size |-> 0, data |-> <<>>]
    /\ state_file = [exists |-> FALSE, torn |-> FALSE, total_size |-> 0,
                     segments |-> <<>>]
    /\ pc = "idle"
    /\ workers = <<>>
    /\ done_cb = <<>>
    /\ runs = 0
    /\ url = [scheme |-> "https", ext |-> "bin"]
    /\ progress_cb = <<>>
    /\ item_status = "Pending"
    /\ resume_log = "not loaded"

\* (the registry of Part III, constructed on an empty directory and not used)
\* (the YtDlpProcess of Part IV, constructed and not started)
NoProcess == [exists |-> FALSE, alive |-> FALSE, stopped |-> FALSE, term |-> FALSE,
              reaped |-> FALSE, returncode |-> 0]

InitNoYt ==
    /\ yt_pc = "idle"
    /\ yt_state = "idle"
    /\ retry_count = 0
    /\ process = NoProcess
    /\ yt_cb = <<>>
    /\ yt_terminated = FALSE
    /\ yt_call = [op |-> "None", ret |-> FALSE]

\* (the HTTP server of Part V, not started)
NoRequest == [method |-> "None", path |-> "None", body |-> "None"]

InitNoHttp ==
    /\ main_window = "None"
    /\ http_pc = "idle"
    /\ http_req = NoRequest
    /\ http_resp = <<>>
    /\ ui_queue = <<>>
    /\ ui_started = {}
    /\ http_count = 0

\* (the Downloader of Part VI, not yet constructed)
NoPath == [abs |-> FALSE, parts |-> <<>>, suffix |-> <<>>]
InitNoPrep ==
    /\ prep_pc = "idle"
    /\ url_text = <<>>
    /\ save_dir = NoPath
    /\ filename = NoPath
    /\ temp_filename = NoPath
    /\ part_path = NoPath

\* (the NetworkManager of Part VII, constructed and never called)
InitNoNet ==
    /\ _state = "unknown"
    /\ _state_callbacks = <<>>
    /\ notified = <<>>
    /\ retry_pc = "idle"
    /\ retry_max = 0
    /\ attempt = 0
    /\ func_calls = <<>>
    /\ retry_result = [kind |-> "None", value |-> "None"]
    /\ slept = <<>>

\* no SegmentMonitor has been constructed
InitNoMon ==
    split_calls = <<>>

InitNoRegistry ==
    /\ registry = <<>>
    /\ registry_file = [exists |-> FALSE, torn |-> FALSE, content |-> <<>>]
    /\ registry_tmp = [exists |-> FALSE, torn |-> FALSE, content |-> <<>>]
    /\ registry_bak = [exists |-> FALSE, torn |-> FALSE, ids |-> {}]
    /\ lastAdd = [url |-> "None", id |-> "None", had |-> FALSE,
                  status |-> "None", progress |-> 0]

InitQ ==
    /\ queues = [n \in {MainQueue} |-> NewSettings(DefaultQueueCap)]
    /\ legacy = TRUE
    /\ active_queues = {}
    /\ active_downloads = {}
    /\ max_concurrent_global \in GlobalCaps
    /\ timers = {}
    /\ downloads = <<>>
    /\ nextId = 0
    /\ edits = 0
    /\ dispatched = <<>>
    /\ lastOp = Op("init", None, None)

Init == InitQ /\ InitIdle /\ InitNoRegistry /\ InitNoYt /\ InitNoHttp /\ InitNoPrep /\ InitNoNet /\ InitNoMon

\* ---- operations ----
\* QueueManager.create_queue(name), called with the default max_concurrent
create_queue(name) ==
    /\ name \notin get_queues
    /\ queues' = [n \in DOMAIN queues \cup {name} |->
                    IF n = name THEN NewSettings(DefaultQueueCap) ELSE queues[n]]
    /\ legacy' = FALSE
    /\ dispatched' = <<>>
    /\ lastOp' = Op("create_queue", name, "True")
    /\ UNCHANGED <<active_queues, active_downloads, max_concurrent_global,
                   timers, downloads, nextId, edits, varsDL, varsReg, varsYt, varsHttp, varsPrep, varsNet, varsMon>>

\* (mutation of StopQueue: the queue stays in the active set)
StopQueue_keeps(aq, name) == aq

\* QueueManager.stop_queue(name), as a function of active_queues
StopQueue(aq, name) == aq \ {name}

\* QueueManager.delete_queue(name)
delete_queue(name) ==
    /\ dispatched' = <<>>
    /\ IF name = DEFAULT_QUEUE_NAME \/ name \notin get_queues
       THEN /\ lastOp' = Op("delete_queue", name, "False")
            /\ UNCHANGED <<queues, legacy, active_queues>>
       ELSE /\ active_queues' = StopQueue(active_queues, name)
            /\ queues' = [n \in DOMAIN queues \ {name} |-> queues[n]]
            /\ legacy' = FALSE
            /\ lastOp' = Op("delete_queue", name, "True")
    /\ UNCHANGED <<active_downloads, max_concurrent_global, timers,
                   downloads, nextId, edits>>
    /\ UNCHANGED <<varsDL, varsReg, varsYt, varsHttp, varsPrep, varsNet, varsMon>>

\* QueueManager.update_queue_settings(name, settings); on the legacy list
\* queues[name] raises TypeError
UpdateRaises(name) == legacy /\ name \in get_queues
UpdatedQueues(name, settings) ==
    IF ~legacy /\ name \in DOMAIN queues
    THEN [queues EXCEPT ![name] = settings]
    ELSE queues

\* update_queue_settings(name, {"max_concurrent": value}), the call of the
\* concurrency spinner
update_queue_settings(name, value) ==
    /\ dispatched' = <<>>
    /\ lastOp' = Op("update_queue_settings", name,
                    IF UpdateRaises(name) THEN "TypeError" ELSE None)
    /\ queues' = UpdatedQueues(name,
                    [get_queue_settings(name) EXCEPT !.max_concurrent = value])
    /\ UNCHANGED <<legacy, active_queues, active_downloads,
                   max_concurrent_global, timers, downloads, nextId, edits, varsDL, varsReg, varsYt, varsHttp, varsPrep, varsNet, varsMon>>

\* a new item enters the registry list: appended, status Pending
AddItem(queue, limit) ==
    /\ nextId < limit
    /\ nextId' = nextId + 1
    /\ downloads' = Append(downloads, NewItem(nextId + 1, queue))
    /\ dispatched' = <<>>
    /\ lastOp' = Op("add_item", None, None)
    /\ UNCHANGED <<queues, legacy, active_queues, active_downloads,
                   max_concurrent_global, timers, edits, varsDL, varsReg, varsYt, varsHttp, varsPrep, varsNet, varsMon>>

\* QueueManager.start_queue as a function of the state it reads
StartQueue(qs, lg, aq, ds, act, name) ==
    IF name \in aq
    THEN [active_queues |-> aq, downloads |-> ds, active_downloads |-> act,
          dispatched |-> <<>>]
    ELSE LET r == ProcessQueue(qs, lg, aq \cup {name}, ds, act, name)
         IN [active_queues |-> aq \cup {name}, downloads |-> r.downloads,
             active_downloads |-> r.active_downloads, dispatched |-> r.dispatched]

\* QueueManager.start_queue(name, downloads, start_download_item)
start_queue(name) ==
    /\ lastOp' = Op("start_queue", name, None)
    /\ LET r == StartQueue(queues, legacy, active_queues, downloads,
                           active_downloads, name)
       IN /\ active_queues' = r.active_queues
          /\ downloads' = r.downloads
          /\ active_downloads' = r.active_downloads
          /\ dispatched' = r.dispatched
    /\ UNCHANGED <<queues, legacy, max_concurrent_global, timers, nextId,
                   edits, varsDL, varsReg, varsYt, varsHttp, varsPrep, varsNet, varsMon>>

\* QueueManager.stop_queue(name)
stop_queue(name) ==
    /\ active_queues' = StopQueue(active_queues, name)
    /\ dispatched' = <<>>
    /\ lastOp' = Op("stop_queue", name, None)
    /\ UNCHANGED <<queues, legacy, active_downloads, max_concurrent_global,
                   timers, downloads, nextId, edits, varsDL, varsReg, varsYt, varsHttp, varsPrep, varsNet, varsMon>>

\* QueueManager.on_download_complete(item, downloads, start_download_item),
\* as a function of the state it reads; i is the list row of the item
OnDownloadComplete(qs, lg, aq, ds, act, i) ==
    LET act1 == act \ {ds[i].id}
    IN IF ds[i].queue # "" /\ ds[i].queue \in aq
       THEN ProcessQueue(qs, lg, aq, ds, act1, ds[i].queue)
       ELSE [downloads |-> ds, active_downloads |-> act1, dispatched |-> <<>>]

\* MainWindow.update_download_status(item, success, filename): the download
\* of list row i has ended
update_download_status(i, success) ==
    /\ i \in DOMAIN downloads
    /\ downloads[i].status \in DownloadingStatuses
    /\ LET ds1 == [downloads EXCEPT ![i].status =
                      IF success THEN I18n_get("complete") ELSE I18n_get("failed")]
       IN \E r \in {IF downloads[i].queue # ""
                    THEN OnDownloadComplete(queues, legacy, active_queues, ds1,
                                            active_downloads, i)
                    ELSE [downloads |-> ds1, active_downloads |-> active_downloads,
                          dispatched |-> <<>>]} :
             /\ downloads' = r.downloads
             /\ active_downloads' = r.active_downloads
             /\ dispatched' = r.dispatched
             /\ lastOp' = Op("on_download_complete", downloads[i].queue, None)
    /\ UNCHANGED <<queues, legacy, active_queues, max_concurrent_global,
                   timers, nextId, edits, varsDL, varsReg, varsYt, varsHttp, varsPrep, varsNet, varsMon>>

\* MainWindow.move_to_queue(queue_name) with list row i selected
move_to_queue(i, name) ==
    /\ i \in DOMAIN downloads
    /\ edits < MaxEdits
    /\ edits' = edits + 1
    /\ LET ds1 == [downloads EXCEPT ![i].queue = name]
       IN downloads' = [ds1 EXCEPT ![i].queue_position =
                           Cardinality({j \in DOMAIN ds1 : ds1[j].queue = name})]
    /\ dispatched' = <<>>
    /\ lastOp' = Op("move_to_queue", None, None)
    /\ UNCHANGED <<queues, legacy, active_queues, active_downloads,
                   max_concurrent_global, timers, nextId, varsDL, varsReg, varsYt, varsHttp, varsPrep, varsNet, varsMon>>

\* MainWindow.delete_download with list row i selected and the dialog accepted
delete_download(i) ==
    /\ i \in DOMAIN downloads
    /\ edits < MaxEdits
    /\ edits' = edits + 1
    /\ downloads' = SubSeq(downloads, 1, i - 1) \o SubSeq(downloads, i + 1, Len(downloads))
    /\ dispatched' = <<>>
    /\ lastOp' = Op("delete_download", None, None)
    /\ UNCHANGED <<queues, legacy, active_queues, active_downloads,
                   max_concurrent_global, timers, nextId, varsDL, varsReg, varsYt, varsHttp, varsPrep, varsNet, varsMon>>

\* MainWindow.stop_download with list row i selected; an item the scheduler
\* dispatched has no dialog, so the row is marked Stopped and nothing else
stop_download(i) ==
    /\ i \in DOMAIN downloads
    /\ edits < MaxEdits
    /\ edits' = edits + 1
    /\ downloads' = [downloads EXCEPT ![i].status = "Stopped"]
    /\ dispatched' = <<>>
    /\ lastOp' = Op("stop_download", None, None)
    /\ UNCHANGED <<queues, legacy, active_queues, active_downloads,
                   max_concurrent_global, timers, nextId, varsDL, varsReg, varsYt, varsHttp, varsPrep, varsNet, varsMon>>

\* QueueManager.set_schedule(name, enabled, start_time, stop_time)
set_schedule(name, enabled, start_time, stop_time) ==
    /\ dispatched' = <<>>
    /\ queues' = UpdatedQueues(name,
                    [get_queue_settings(name) EXCEPT
                        !.schedule_enabled = enabled,
                        !.schedule_start = isoformat(start_time),
                        !.schedule_stop = isoformat(stop_time)])
    /\ IF UpdateRaises(name)
       THEN /\ lastOp' = Op("set_schedule", name, "TypeError")
            /\ UNCHANGED timers
       ELSE /\ lastOp' = Op("set_schedule", name, None)
            /\ timers' = IF enabled /\ start_time # NoTime
                         THEN timers \cup {name}
                         ELSE timers \ {name}
    /\ UNCHANGED <<legacy, active_queues, active_downloads,
                   max_concurrent_global, downloads, nextId, edits, varsDL, varsReg, varsYt, varsHttp, varsPrep, varsNet, varsMon>>

\* the attribute QueueManager.queue_callbacks: no code assigns it
HasQueueCallbacks == FALSE

\* QueueManager._check_schedule(name), the slot of the queue's minute timer,
\* with datetime.now() = now
_check_schedule(name, now) ==
    /\ name \in timers
    /\ LET settings == get_queue_settings(name)
           start_time == fromisoformat(settings.schedule_start)
           stop_time == fromisoformat(settings.schedule_stop)
       IN IF ~settings.schedule_enabled \/ settings.schedule_start = NoTime
          THEN /\ lastOp' = TickOp(name, None, now)
               /\ dispatched' = <<>>
               /\ UNCHANGED <<active_queues, active_downloads, downloads>>
          ELSE IF start_time.hm = now.hm /\ name \notin active_queues
                  /\ ~HasQueueCallbacks
          THEN \* self.queue_callbacks raises AttributeError: the slot ends here
               /\ lastOp' = TickOp(name, "AttributeError", now)
               /\ dispatched' = <<>>
               /\ UNCHANGED <<active_queues, active_downloads, downloads>>
          ELSE LET r == IF start_time.hm = now.hm /\ name \notin active_queues
                        THEN StartQueue(queues, legacy, active_queues, downloads,
                                        active_downloads, name)
                        ELSE [active_queues |-> active_queues, downloads |-> downloads,
                              active_downloads |-> active_downloads,
                              dispatched |-> <<>>]
               IN /\ lastOp' = TickOp(name, None, now)
                  /\ dispatched' = r.dispatched
                  /\ downloads' = r.downloads
                  /\ active_downloads' = r.active_downloads
                  /\ active_queues' =
                        IF stop_time # NoTime /\ stop_time.hm = now.hm
                        THEN StopQueue(r.active_queues, name)
                        ELSE r.active_queues
    /\ UNCHANGED <<queues, legacy, max_concurrent_global, timers, nextId,
                   edits, varsDL, varsReg, varsYt, varsHttp, varsPrep, varsNet, varsMon>>

\* ---- the scheduler with the registry operations ----
Next ==
    \/ \E n \in OtherQueues : create_queue(n)
    \/ \E n \in QueueNames : delete_queue(n)
    \/ \E n \in get_queues, v \in SpinnerCaps : update_queue_settings(n, v)
    \/ \E n \in get_queues : AddItem(n, MaxItems)
    \/ \E n \in get_queues : start_queue(n)
    \/ \E n \in get_queues : stop_queue(n)
    \/ \E i \in DOMAIN downloads, s \in BOOLEAN : update_download_status(i, s)
    \/ \E i \in DOMAIN downloads, n \in get_queues : move_to_queue(i, n)
    \/ \E i \in DOMAIN downloads : delete_download(i)
    \/ \E i \in DOMAIN downloads : stop_download(i)

Spec == Init /\ [][Next]_vars

\* ---- the scheduler with its minute timers ----
NextSched ==
    \/ \E n \in OtherQueues : create_queue(n)
    \/ \E n \in get_queues : AddItem(n, SchedMaxItems)
    \/ \E n \in get_queues : start_queue(n)
    \/ \E n \in get_queues : stop_queue(n)
    \/ \E i \in DOMAIN downloads, s \in BOOLEAN : update_download_status(i, s)
    \/ \E n \in get_queues, st \in StartTimes, sp \in StopTimes \cup {NoTime} :
          set_schedule(n, TRUE, st, sp)
    \/ \E n \in get_queues : set_schedule(n, FALSE, NoTime, NoTime)
    \/ \E n \in timers, now \in ClockTimes : _check_schedule(n, now)

SpecSched == Init /\ [][NextSched]_vars

\* ---- Scenario D: a session that starts from a persisted config with two
\* ---- queues besides the default one and a history of five pending items
ScenarioQueues == {"Q1", "Q2"}
ScenarioCaps == {1, 2}
ScenarioGlobalCaps == {3}
ScenarioHistory ==
    <<NewItem(1, "Q1"), NewItem(2, "Q1"), NewItem(3, "Q1"),
      NewItem(4, "Q2"), NewItem(5, "Q2")>>

InitScenario ==
    /\ \E c1 \in ScenarioCaps, c2 \in ScenarioCaps :
          queues = [n \in {MainQueue} \cup ScenarioQueues |->
                      NewSettings(IF n = "Q1" THEN c1
                                  ELSE IF n = "Q2" THEN c2 ELSE DefaultQueueCap)]
    /\ legacy = FALSE
    /\ active_queues = {}
    /\ active_downloads = {}
    /\ max_concurrent_global \in ScenarioGlobalCaps
    /\ timers = {}
    /\ downloads = ScenarioHistory
    /\ nextId = Len(ScenarioHistory)
    /\ edits = 0
    /\ dispatched = <<>>
    /\ lastOp = Op("init", None, None)
    /\ InitIdle
    /\ InitNoRegistry
    /\ InitNoYt
    /\ InitNoHttp /\ InitNoPrep /\ InitNoNet /\ InitNoMon

NextScenario ==
    \/ \E n \in get_queues : start_queue(n)
    \/ \E n \in get_queues : stop_queue(n)
    \/ \E i \in DOMAIN downloads, s \in BOOLEAN : update_download_status(i, s)

SpecScenario == InitScenario /\ [][NextScenario]_vars

(***************************************************************************)
(*                     Properties of the queue scheduler                   *)
(***************************************************************************)
\* the in-flight items: the items whose id is in active_downloads
InFlight == {i \in DOMAIN downloads : downloads[i].id \in active_downloads}
InFlightOf(name) == {i \in InFlight : downloads[i].queue = name}
EligibleOf(name) == {i \in DOMAIN downloads :
                        downloads[i].queue = name /\ downloads[i].status \in EligibleStatuses}
StatusSeq == [i \in DOMAIN downloads |-> downloads[i].status]
DispatchedIds == [k \in DOMAIN dispatched |-> dispatched[k].id]

\* C1: the number of in-flight items equals the size of active_downloads, it
\* is at most max_concurrent_global, and every queue has at most its
\* max_concurrent items in flight.
C1_InFlightWithinCaps ==
    /\ Cardinality(InFlight) = Cardinality(active_downloads)
    /\ Cardinality(active_downloads) <= max_concurrent_global
    /\ \A n \in get_queues :
          Cardinality(InFlightOf(n)) <= get_queue_settings(n).max_concurrent

\* C2: start_queue(name) on a queue that is not active marks it active and
\* hands exactly min(queue cap - queue in-flight, global cap - global
\* in-flight, number of eligible items) items of that queue to the start
\* callback, none when that number is not positive; with caps 2, 2 and global
\* cap 3, three pending items in Q1 and two in Q2, starting Q1 dispatches
\* items 1 and 2, and starting Q2 next dispatches item 4 and leaves 3 and 5
\* Pending.
ScenarioD ==
    /\ queues["Q1"].max_concurrent = 2
    /\ queues["Q2"].max_concurrent = 2
    /\ max_concurrent_global = 3
    /\ active_downloads = {}
    /\ \A i \in DOMAIN downloads : downloads[i].status = "Pending"
    /\ active_queues = {}

ScenarioD_Q1_Started ==
    /\ queues["Q1"].max_concurrent = 2
    /\ queues["Q2"].max_concurrent = 2
    /\ max_concurrent_global = 3
    /\ active_queues = {"Q1"}
    /\ active_downloads = {1, 2}
    /\ StatusSeq = <<"Downloading...", "Downloading...", "Pending", "Pending", "Pending">>

ScenarioD_Both_Started ==
    /\ queues["Q1"].max_concurrent = 2
    /\ queues["Q2"].max_concurrent = 2
    /\ max_concurrent_global = 3
    /\ active_queues = {"Q1", "Q2"}
    /\ active_downloads = {1, 2, 4}
    /\ StatusSeq = <<"Downloading...", "Downloading...", "Pending",
                     "Downloading...", "Pending">>

Before(a, b) ==
    \/ a.queue_position < b.queue_position
    \/ a.queue_position = b.queue_position /\ a.added_at < b.added_at

C3_DispatchOrder ==
    /\ \A k \in DOMAIN dispatched : dispatched[k].status \in EligibleStatuses
    /\ \A k, l \in DOMAIN dispatched : k < l => Before(dispatched[k], dispatched[l])
    /\ \A k \in DOMAIN dispatched : \A i \in DOMAIN downloads :
          (downloads[i].queue = dispatched[k].queue
             /\ downloads[i].status \in EligibleStatuses)
          => Before(dispatched[k], downloads[i])

C3_Witness ==
    /\ Len(dispatched) >= 2
    /\ dispatched[1].queue_position = dispatched[2].queue_position
    /\ dispatched[1].added_at < dispatched[2].added_at

\* C4: stop_queue(name) removes the queue from the active set and leaves the
\* in-flight set and every item unchanged, and an item is dispatched only in
\* a step that starts its queue or in which its queue was already active,
\* so not after stop_queue and before the next start_queue, also not when an
\* in-flight item of the stopped queue completes.
C4_StopQueueOnlyDeactivates ==
    [][/\ (lastOp'.op = "stop_queue") =>
             /\ lastOp'.name \notin active_queues'
             /\ active_queues' = active_queues \ {lastOp'.name}
             /\ active_downloads' = active_downloads
             /\ downloads' = downloads
       /\ \A k \in DOMAIN dispatched' :
             \/ dispatched'[k].queue \in active_queues
             \/ lastOp'.op = "start_queue" /\ lastOp'.name = dispatched'[k].queue
      ]_vars

C4_Witness ==
    /\ lastOp.op = "on_download_complete"
    /\ lastOp.name \notin active_queues
    /\ lastOp.name \in get_queues
    /\ EligibleOf(lastOp.name) # {}
    /\ Cardinality(active_downloads) < max_concurrent_global
    /\ Cardinality(InFlightOf(lastOp.name)) < get_queue_settings(lastOp.name).max_concurrent
    /\ dispatched = <<>>

\* C5: for a queue with scheduling enabled, the tick at the start time makes
\* the queue active, the tick at the stop time makes it inactive, and a tick
\* at any other minute changes nothing.
C5_TickStartsAndStops ==
    [][(lastOp'.op = "_check_schedule") =>
         LET name == lastOp'.name
             settings == get_queue_settings(name)
             atStart == fromisoformat(settings.schedule_start).hm = lastOp'.now
             atStop == /\ settings.schedule_stop # NoTime
                       /\ fromisoformat(settings.schedule_stop).hm = lastOp'.now
         IN (settings.schedule_enabled /\ settings.schedule_start # NoTime) =>
               /\ atStop => name \notin active_queues'
               /\ (atStart /\ ~atStop) => name \in active_queues'
               /\ (~atStart /\ ~atStop) =>
                     UNCHANGED <<active_queues, active_downloads, downloads>>
      ]_vars

\* C6: delete_queue with the default queue's name returns False and the
\* default queue exists in every reachable state.
C6_DefaultQueueProtected ==
    /\ MainQueue \in get_queues
    /\ (lastOp.op = "delete_queue" /\ lastOp.name = I18n_get("main_queue"))
          => lastOp.ret = "False"

\* C7: after delete_queue(name) has deleted a non-default queue, the queue is
\* gone and no download refers to it.
C7_DeleteQueueReassigns ==
    (lastOp.op = "delete_queue" /\ lastOp.ret = "True" /\ lastOp.name # MainQueue)
       => /\ lastOp.name \notin get_queues
          /\ \A i \in DOMAIN downloads : downloads[i].queue # lastOp.name

(***************************************************************************)
(*                    Part II : the segmented downloader                   *)
(***************************************************************************)
\* all byte counts are in units of READ_SIZE (1 MiB)
READ_SIZE == 1
WRITE_SIZE == 16 * READ_SIZE

\* ---- bounds of the explored inputs ----
MaxRuns == 2                    \* Downloader objects constructed for the URL
\* <<size of the resource, worker_count handed to the constructor>>
DownloadCases == {<<0, 2>>, <<1, 1>>, <<2, 3>>, <<5, 2>>, <<17, 1>>}
\* the URLs handed to the constructor, as [scheme, extension of the path]
Urls == {[scheme |-> "https", ext |-> "bin"], [scheme |-> "https", ext |-> "m3u8"],
         [scheme |-> "ftp", ext |-> "bin"], [scheme |-> "file", ext |-> "bin"]}

\* Downloader._detect_stream_type
_detect_stream_type(u) ==
    CASE u.ext = "m3u8" -> "hls"
      [] u.ext = "mpd" -> "dash"
      [] u.ext \in {"ts", "mp4", "mp3"} -> "media"
      [] OTHER -> "direct"

\* start: the condition of the streaming branch; no explored URL belongs to
\* a site of an extractor, so is_streaming_site stays False
TakesStreamPath(u) == _detect_stream_type(u) \in {"hls", "dash"}

\* prepare: the URLs it raises ValueError for
BrowserInternal(u) ==
    u.scheme \in {"chrome", "about", "file", "chrome-extension", "moz-extension"}

\* prepare: httpx.get raises for a scheme other than http and https, inside
\* the try block
ProbeUnsupported(u) == u.scheme \notin {"http", "https"}

\* the content of the resource: the byte the server holds at an offset; a
\* byte of the part file that was allocated and never written is a Hole
ServerByte(offset) == offset + 1
Hole == 0

NoFile == [exists |-> FALSE, size |-> 0, data |-> <<>>]
NoState == [exists |-> FALSE, torn |-> FALSE, total_size |-> 0, segments |-> <<>>]
\* the state file between open(state_file, "w") and the end of json.dump
TornState == [exists |-> TRUE, torn |-> TRUE, total_size |-> 0, segments |-> <<>>]

\* prepare: open(temp_filename, "wb") and f.truncate(total_size)
Allocated(total) ==
    [exists |-> TRUE, size |-> total, data |-> [o \in 1..total |-> Hole]]

\* the whole resource, as the file a complete download leaves
WholeFile(total) ==
    [exists |-> TRUE, size |-> total,
     data |-> [o \in 1..total |-> ServerByte(o - 1)]]

\* update_download_status: the status the completion callback leaves
EndStatus(success) == IF success THEN I18n_get("complete") ELSE I18n_get("failed")

\* (mutation of ProgressValue: the bytes of the worker's own segment)
ProgressValue_own(new_total, own) == own

\* download_segment: the first argument of the progress callback
ProgressValue(new_total, own) == new_total

ExpectedSize(seg) == (seg.end - seg.start) + 1

\* (mutation of SegmentEnd: the last segment does not absorb the remainder)
SegmentEnd_noremainder(i, segment_size, count, total) ==
    (i + 1) * segment_size - 1

\* prepare: the end of segment i of count segments
SegmentEnd(i, segment_size, count, total) ==
    IF i < count - 1 THEN (i + 1) * segment_size - 1 ELSE total - 1

\* prepare: the segment list for total bytes and count workers
NewSegments(total, count) ==
    LET segment_size == total \div count
    IN [k \in 1..count |->
          [index |-> k - 1,
           start |-> (k - 1) * segment_size,
           end |-> SegmentEnd(k - 1, segment_size, count, total),
           downloaded |-> 0,
           finished |-> FALSE]]

\* (mutation of ValidateSegment: an overshoot is not clipped)
ValidateSegment_noclamp(seg) ==
    IF seg.finished /\ seg.downloaded < ExpectedSize(seg)
    THEN [seg EXCEPT !.finished = FALSE] ELSE seg

\* validate_segments, one segment
ValidateSegment(seg) ==
    LET s1 == IF seg.finished /\ seg.downloaded < ExpectedSize(seg)
              THEN [seg EXCEPT !.finished = FALSE] ELSE seg
    IN IF s1.downloaded > ExpectedSize(s1)
       THEN [s1 EXCEPT !.downloaded = ExpectedSize(s1), !.finished = TRUE]
       ELSE s1

\* validate_segments
validate_segments(segs) == [k \in DOMAIN segs |-> ValidateSegment(segs[k])]

RECURSIVE SumDownloaded(_)
SumDownloaded(segs) ==
    IF segs = <<>> THEN 0 ELSE Head(segs).downloaded + SumDownloaded(Tail(segs))

\* save_state: the content json.dump writes
Snapshot(total, segs) ==
    [exists |-> TRUE, torn |-> FALSE, total_size |-> total, segments |-> segs]

\* the download_segment call of a segment, not yet taken by a pool thread
\* pos: the file position; buf: len(buffer); left: bytes of the body not yet
\* read; src: server offset of the next byte of the body; first: the
\* position of f.seek; err: the call ended in the except clause
QueuedWorker ==
    [pc |-> "queued", pos |-> 0, buf |-> 0, left |-> 0, final |-> FALSE,
     first |-> 0, src |-> 0, err |-> FALSE]
QueuedWorkers(segs) == [k \in DOMAIN segs |-> QueuedWorker]

\* f.write(buffer) at file position pos; the buffer holds the n bytes of the
\* resource that start at server offset src
WriteAt(file, pos, n, src) ==
    LET size == Max(file.size, pos + n)
    IN [file EXCEPT
          !.size = size,
          !.data = [o \in 1..size |->
                      IF pos < o /\ o <= pos + n THEN ServerByte(src + (o - 1 - pos))
                      ELSE IF o <= file.size THEN file.data[o]
                      ELSE Hole]]

\* ---- state: a Downloader constructed for a URL never downloaded before ----
InitDownloader ==
    /\ \E c \in DownloadCases : srv_size = c[1] /\ worker_count = c[2]
    /\ srv_ranges \in BOOLEAN
    /\ url \in Urls
    /\ progress_cb = <<>>
    /\ item_status = "Downloading..."
    /\ resume_log = "not loaded"
    /\ running = TRUE
    /\ total_size = 0
    /\ segments = <<>>
    /\ downloaded_total = 0
    /\ part_file = NoFile
    /\ target_file = NoFile
    /\ state_file = NoState
    /\ pc = "idle"
    /\ workers = <<>>
    /\ done_cb = <<>>
    /\ runs = 1

\* (the scheduler of Part I, constructed and never used)
InitUnused ==
    /\ queues = [n \in {MainQueue} |-> NewSettings(DefaultQueueCap)]
    /\ legacy = TRUE
    /\ active_queues = {}
    /\ active_downloads = {}
    /\ max_concurrent_global = DefaultQueueCap
    /\ timers = {}
    /\ downloads = <<>>
    /\ nextId = 0
    /\ edits = 0
    /\ dispatched = <<>>
    /\ lastOp = Op("init", None, None)

\* (mutation of LoadBranch: the part file is not looked for)
LoadBranch_ignorepart(state, part) ==
    IF ~state.exists THEN "no state"
    ELSE IF state.torn THEN "corrupted"
    ELSE "resumed"

\* load_resume_state: the branch it takes, by its log line
LoadBranch(state, part) ==
    IF ~state.exists THEN "no state"
    ELSE IF state.torn THEN "corrupted"
    ELSE IF ~part.exists THEN "no part"
    ELSE "resumed"

\* the size prepare reads from the probe response: the total of
\* Content-Range, else Content-Length, else 0 when the server declares
\* neither (a chunked body)
ProbedSize(declared) == IF declared THEN srv_size ELSE 0

\* ---- operations ----
\* start() up to the thread pool, on the direct path: load_resume_state,
\* else prepare; probe_ok is FALSE when the probe request raises, declared
\* is FALSE when the probe response declares no size
StartRun(probe_ok, declared) ==
    /\ pc = "idle"
    /\ ~TakesStreamPath(url)
    /\ IF LoadBranch(state_file, part_file) = "resumed"
       THEN \* load_resume_state returns the bytes downloaded so far
            /\ segments' = validate_segments(state_file.segments)
            /\ total_size' = state_file.total_size
            /\ downloaded_total' = SumDownloaded(validate_segments(state_file.segments))
            /\ workers' = QueuedWorkers(state_file.segments)
            /\ pc' = "workers"
            /\ UNCHANGED <<worker_count, part_file, state_file, done_cb, item_status>>
       ELSE IF BrowserInternal(url)
       THEN \* prepare raises ValueError, no handler in start() catches it
            /\ pc' = "raised"
            /\ UNCHANGED <<worker_count, total_size, segments, downloaded_total,
                           part_file, state_file, workers, done_cb, item_status>>
       ELSE IF ~probe_ok \/ ProbeUnsupported(url)
       THEN \* prepare returns False
            /\ done_cb' = Append(done_cb, FALSE)
            /\ item_status' = EndStatus(FALSE)
            /\ pc' = "done"
            /\ UNCHANGED <<worker_count, total_size, segments, downloaded_total,
                           part_file, state_file, workers>>
       ELSE LET size == ProbedSize(declared)
                count == IF size > 0 THEN worker_count ELSE 1
            IN /\ total_size' = size
               /\ part_file' = Allocated(size)
               /\ worker_count' = count
               /\ segments' = NewSegments(size, count)
               /\ state_file' = Snapshot(size, NewSegments(size, count))
               /\ downloaded_total' = 0
               /\ workers' = QueuedWorkers(NewSegments(size, count))
               /\ pc' = "workers"
               /\ UNCHANGED <<done_cb, item_status>>
    /\ resume_log' = LoadBranch(state_file, part_file)
    /\ UNCHANGED <<srv_size, srv_ranges, running, target_file, runs, url,
                   progress_cb>>
    /\ UNCHANGED <<varsQ, varsReg, varsYt, varsHttp, varsPrep, varsNet, varsMon>>

\* start() on the streaming branch: download_stream_ydl runs the tool;
\* exit_ok is TRUE when the tool exits with code 0
StartStream(exit_ok) ==
    /\ pc = "idle"
    /\ TakesStreamPath(url)
    /\ pc' = "done"
    /\ IF exit_ok
       THEN \* download_stream_ydl calls the callback, then start() calls it
            /\ done_cb' = Append(Append(done_cb, TRUE), TRUE)
            /\ item_status' = EndStatus(TRUE)
            /\ target_file' = WholeFile(srv_size)
       ELSE /\ done_cb' = Append(done_cb, FALSE)
            /\ item_status' = EndStatus(FALSE)
            /\ UNCHANGED target_file
    /\ UNCHANGED <<resume_log, srv_size, srv_ranges, worker_count, running, total_size,
                   segments, downloaded_total, part_file, state_file, workers,
                   runs, url, progress_cb>>
    /\ UNCHANGED <<varsQ, varsReg, varsYt, varsHttp, varsPrep, varsNet, varsMon>>

Busy == {k \in DOMAIN workers : workers[k].pc \notin {"queued", "exit"}}

\* download_segment(i - 1) up to the request: a pool thread takes the next
\* queued call; short is TRUE when the server ends the body one unit early
WorkerBegin(i, short) ==
    /\ pc = "workers"
    /\ i \in DOMAIN workers
    /\ workers[i].pc = "queued"
    /\ \A j \in DOMAIN workers : j < i => workers[j].pc # "queued"
    /\ Cardinality(Busy) < worker_count
    /\ LET seg == segments[i]
           current_pos == seg.start + seg.downloaded
           wanted == seg.end - current_pos + 1
           body == IF srv_ranges THEN wanted ELSE srv_size
       IN IF seg.finished
          THEN /\ workers' = [workers EXCEPT ![i].pc = "exit"]
               /\ UNCHANGED <<segments, state_file>>
          ELSE IF current_pos > seg.end
          THEN /\ segments' = [segments EXCEPT ![i].finished = TRUE]
               /\ state_file' = Snapshot(total_size, segments')
               /\ workers' = [workers EXCEPT ![i].pc = "exit"]
          ELSE /\ short => body > 0
               /\ workers' = [workers EXCEPT ![i] =
                     [pc |-> "stream", pos |-> current_pos, buf |-> 0,
                      left |-> IF short THEN body - 1 ELSE body, final |-> FALSE,
                      first |-> current_pos,
                      src |-> IF srv_ranges THEN current_pos ELSE 0,
                      err |-> FALSE]]
               /\ UNCHANGED <<segments, state_file>>
    /\ UNCHANGED <<resume_log, srv_size, srv_ranges, worker_count, running, total_size,
                   downloaded_total, part_file, target_file, pc, done_cb, runs,
                   url, progress_cb, item_status>>
    /\ UNCHANGED <<varsQ, varsReg, varsYt, varsHttp, varsPrep, varsNet, varsMon>>

\* one turn of the loop over r.iter_bytes(chunk_size=READ_SIZE)
WorkerChunk(i) ==
    /\ pc = "workers"
    /\ i \in DOMAIN workers
    /\ workers[i].pc = "stream"
    /\ IF workers[i].left = 0 \/ ~running
       THEN \* end of the body, or break: on to the flush of the rest
            /\ workers' = [workers EXCEPT ![i].final = TRUE,
                              ![i].pc = IF workers[i].buf > 0 THEN "write" ELSE "finish"]
            /\ UNCHANGED <<downloaded_total, progress_cb>>
       ELSE LET n == Min(READ_SIZE, workers[i].left)
            IN /\ downloaded_total' = downloaded_total + n
               /\ progress_cb' = Append(progress_cb,
                     ProgressValue(downloaded_total + n,
                                   segments[i].downloaded + workers[i].buf + n))
               /\ workers' = [workers EXCEPT ![i].left = @ - n, ![i].buf = @ + n,
                                 ![i].src = @ + n,
                                 ![i].pc = IF workers[i].buf + n >= WRITE_SIZE
                                           THEN "write" ELSE "stream"]
    /\ UNCHANGED <<resume_log, srv_size, srv_ranges, worker_count, running, total_size,
                   segments, part_file, target_file, state_file, pc, done_cb,
                   runs, url, item_status>>
    /\ UNCHANGED <<varsQ, varsReg, varsYt, varsHttp, varsPrep, varsNet, varsMon>>

\* (mutation of WorkerWrite: the buffer is dropped, nothing reaches the file)
WorkerWrite_nowrite(i) ==
    /\ pc = "workers"
    /\ i \in DOMAIN workers
    /\ workers[i].pc = "write"
    /\ workers' = [workers EXCEPT ![i].pos = @ + workers[i].buf, ![i].pc = "count"]
    /\ UNCHANGED <<resume_log, srv_size, srv_ranges, worker_count, running, total_size,
                   segments, downloaded_total, target_file, state_file, pc,
                   done_cb, runs, url, progress_cb, item_status, part_file>>
    /\ UNCHANGED <<varsQ, varsReg, varsYt, varsHttp, varsPrep, varsNet, varsMon>>

\* f.write(buffer)
WorkerWrite(i) ==
    /\ pc = "workers"
    /\ i \in DOMAIN workers
    /\ workers[i].pc = "write"
    /\ part_file' = WriteAt(part_file, workers[i].pos, workers[i].buf,
                            workers[i].src - workers[i].buf)
    /\ workers' = [workers EXCEPT ![i].pos = @ + workers[i].buf, ![i].pc = "count"]
    /\ UNCHANGED <<resume_log, srv_size, srv_ranges, worker_count, running, total_size,
                   segments, downloaded_total, target_file, state_file, pc,
                   done_cb, runs, url, progress_cb, item_status>>
    /\ UNCHANGED <<varsQ, varsReg, varsYt, varsHttp, varsPrep, varsNet, varsMon>>

\* seg["downloaded"] += len(buffer); inside the loop the buffer is cleared
\* and the state is saved when 5 seconds have passed since the last save
WorkerCount(i, save_due) ==
    /\ pc = "workers"
    /\ i \in DOMAIN workers
    /\ workers[i].pc = "count"
    /\ segments' = [segments EXCEPT ![i].downloaded = @ + workers[i].buf]
    /\ workers' = [workers EXCEPT ![i].buf = 0,
                      ![i].pc = IF workers[i].final THEN "finish" ELSE "stream"]
    /\ IF save_due /\ ~workers[i].final
       THEN state_file' = Snapshot(total_size, segments')
       ELSE /\ ~save_due
            /\ UNCHANGED state_file
    /\ UNCHANGED <<resume_log, srv_size, srv_ranges, worker_count, running, total_size,
                   downloaded_total, part_file, target_file, pc, done_cb, runs,
                   url, progress_cb, item_status>>
    /\ UNCHANGED <<varsQ, varsReg, varsYt, varsHttp, varsPrep, varsNet, varsMon>>

\* seg["finished"] = True; self.save_state()
WorkerFinish(i) ==
    /\ pc = "workers"
    /\ i \in DOMAIN workers
    /\ workers[i].pc = "finish"
    /\ segments' = [segments EXCEPT ![i].finished = TRUE]
    /\ state_file' = Snapshot(total_size, segments')
    /\ workers' = [workers EXCEPT ![i].pc = "exit"]
    /\ UNCHANGED <<resume_log, srv_size, srv_ranges, worker_count, running, total_size,
                   downloaded_total, part_file, target_file, pc, done_cb, runs,
                   url, progress_cb, item_status>>
    /\ UNCHANGED <<varsQ, varsReg, varsYt, varsHttp, varsPrep, varsNet, varsMon>>

\* the request or a read raises: the except clause logs, the call returns
WorkerError(i) ==
    /\ pc = "workers"
    /\ i \in DOMAIN workers
    /\ workers[i].pc = "stream"
    /\ workers' = [workers EXCEPT ![i].pc = "exit", ![i].buf = 0, ![i].err = TRUE]
    /\ UNCHANGED <<resume_log, srv_size, srv_ranges, worker_count, running, total_size,
                   segments, downloaded_total, part_file, target_file,
                   state_file, pc, done_cb, runs, url, progress_cb, item_status>>
    /\ UNCHANGED <<varsQ, varsReg, varsYt, varsHttp, varsPrep, varsNet, varsMon>>

\* stop(), called from another thread while the pool runs
Stop ==
    /\ pc = "workers"
    /\ running
    /\ running' = FALSE
    /\ state_file' = Snapshot(total_size, segments)
    /\ UNCHANGED <<resume_log, srv_size, srv_ranges, worker_count, total_size, segments,
                   downloaded_total, part_file, target_file, pc, workers,
                   done_cb, runs, url, progress_cb, item_status>>
    /\ UNCHANGED <<varsQ, varsReg, varsYt, varsHttp, varsPrep, varsNet, varsMon>>

AllFinished(segs) == \A k \in DOMAIN segs : segs[k].finished

\* start() after the thread pool: the final verification
Finalize ==
    /\ pc = "workers"
    /\ \A k \in DOMAIN workers : workers[k].pc = "exit"
    /\ pc' = "done"
    /\ IF AllFinished(segments)
       THEN /\ target_file' = part_file
            /\ part_file' = NoFile
            /\ state_file' = NoState
            /\ done_cb' = Append(done_cb, TRUE)
            /\ item_status' = EndStatus(TRUE)
       ELSE /\ done_cb' = Append(done_cb, FALSE)
            /\ item_status' = EndStatus(FALSE)
            /\ UNCHANGED <<target_file, part_file, state_file>>
    /\ UNCHANGED <<resume_log, srv_size, srv_ranges, worker_count, running, total_size,
                   segments, downloaded_total, workers, runs, url, progress_cb>>
    /\ UNCHANGED <<varsQ, varsReg, varsYt, varsHttp, varsPrep, varsNet, varsMon>>

\* a call of save_state can be under way: stop(), the save after a segment
\* is finished, or the periodic save of the loop
SaveUnderWay ==
    /\ pc = "workers"
    /\ \/ running
       \/ \E k \in DOMAIN workers :
             \/ workers[k].pc = "finish"
             \/ workers[k].pc = "count" /\ ~workers[k].final

\* the process is killed while the pool runs, or start() has returned
\* without success: a new Downloader is constructed for the same URL; torn
\* is TRUE when the kill falls between open(state_file, "w") and the end of
\* json.dump of a save_state call
NewRun(count, torn) ==
    /\ runs < MaxRuns
    /\ pc \in {"workers", "raised"} \/ (pc = "done" /\ done_cb = <<FALSE>>)
    /\ torn => SaveUnderWay
    /\ state_file' = IF torn THEN TornState ELSE state_file
    /\ runs' = runs + 1
    /\ worker_count' = count
    /\ running' = TRUE
    /\ total_size' = 0
    /\ segments' = <<>>
    /\ downloaded_total' = 0
    /\ pc' = "idle"
    /\ workers' = <<>>
    /\ done_cb' = <<>>
    /\ progress_cb' = <<>>
    /\ resume_log' = "not loaded"
    /\ UNCHANGED <<srv_size, srv_ranges, part_file, target_file, url, item_status>>
    /\ UNCHANGED <<varsQ, varsReg, varsYt, varsHttp, varsPrep, varsNet, varsMon>>

\* the servers of this specification declare the size of the resource
Declaring == {TRUE}

NextDL ==
    \/ \E ok \in BOOLEAN, declared \in Declaring : StartRun(ok, declared)
    \/ \E exit_ok \in BOOLEAN : StartStream(exit_ok)
    \/ \E i \in DOMAIN workers, short \in BOOLEAN : WorkerBegin(i, short)
    \/ \E i \in DOMAIN workers : WorkerChunk(i)
    \/ \E i \in DOMAIN workers : WorkerWrite(i)
    \/ \E i \in DOMAIN workers, save_due \in BOOLEAN : WorkerCount(i, save_due)
    \/ \E i \in DOMAIN workers : WorkerFinish(i)
    \/ \E i \in DOMAIN workers : WorkerError(i)
    \/ Stop
    \/ Finalize
    \/ \E count \in {worker_count}, torn \in BOOLEAN : NewRun(count, torn)

InitDL == InitDownloader /\ InitUnused /\ InitNoRegistry /\ InitNoYt /\ InitNoHttp /\ InitNoPrep /\ InitNoNet /\ InitNoMon

SpecDL == InitDL /\ [][NextDL]_vars

\* ---- the downloader with servers that may declare no size ----
\* a probe response without Content-Range comes from a server that ignores
\* the Range header
NextChunked ==
    \/ NextDL
    \/ \E ok \in BOOLEAN : ~srv_ranges /\ StartRun(ok, FALSE)

SpecChunked == InitDL /\ [][NextChunked]_vars

\* ---- a Downloader constructed where an earlier session left its files ----
\* <<size of the resource, number of segments of the persisted state>>
ResumeCases == {<<2, 1>>, <<5, 2>>}

\* the segment lists a state file can hold: the partition of the earlier
\* prepare with any counter up to one unit of overshoot and any flag
LoadedSegments(total, count) ==
    LET base == NewSegments(total, count)
        Counters == {c \in [1..count -> (0..(total + 1)) \X BOOLEAN] :
                        \A k \in 1..count : c[k][1] <= ExpectedSize(base[k]) + 1}
    IN {[k \in 1..count |-> [base[k] EXCEPT !.downloaded = c[k][1],
                                             !.finished = c[k][2]]] : c \in Counters}

InitResumeFiles ==
    /\ \E c \in ResumeCases :
          /\ srv_size = c[1]
          /\ worker_count = c[2]
          /\ \E segs \in LoadedSegments(c[1], c[2]) : state_file = Snapshot(c[1], segs)
    /\ part_file \in {NoFile, Allocated(srv_size)}
    /\ srv_ranges = TRUE
    /\ url \in Urls
    /\ running = TRUE
    /\ total_size = 0
    /\ segments = <<>>
    /\ downloaded_total = 0
    /\ target_file = NoFile
    /\ pc = "idle"
    /\ workers = <<>>
    /\ done_cb = <<>>
    /\ runs = 1
    /\ progress_cb = <<>>
    /\ item_status = "Stopped"
    /\ resume_log = "not loaded"

InitResume ==
    InitResumeFiles /\ InitUnused /\ InitNoRegistry /\ InitNoYt /\ InitNoHttp /\ InitNoPrep /\ InitNoNet /\ InitNoMon

SpecResume == InitResume /\ [][NextDL]_vars

(***************************************************************************)
(*                 Properties of the segmented downloader                  *)
(***************************************************************************)
\* the segments partition [0, total): by index, the first starts at 0, each
\* next one starts at the previous end + 1, the last ends at total - 1
IsPartition(segs, total) ==
    /\ Len(segs) >= 1
    /\ \A k \in DOMAIN segs : segs[k].index = k - 1
    /\ segs[1].start = 0
    /\ \A k \in DOMAIN segs : k > 1 => segs[k].start = segs[k - 1].end + 1
    /\ segs[Len(segs)].end = total - 1

\* C8: the segments prepare() creates, and the segments of every state
\* persisted afterwards, partition [0, total_size) exactly.
C8_SegmentsPartition ==
    /\ (pc # "idle" /\ segments # <<>>) =>
          (total_size = srv_size /\ IsPartition(segments, total_size))
    /\ (state_file.exists /\ ~state_file.torn) =>
          (state_file.total_size = srv_size
             /\ IsPartition(state_file.segments, state_file.total_size))

C8_Witness ==
    /\ state_file.exists
    /\ Len(state_file.segments) = 2
    /\ state_file.total_size % 2 = 1
    /\ state_file.segments[2].downloaded > 0
    /\ ExpectedSize(state_file.segments[2]) > ExpectedSize(state_file.segments[1])

\* C9: in every state of a run every segment has
\* 0 <= downloaded <= end - start + 1, and a finished segment has
\* downloaded = end - start + 1.
C9_SegmentCounters ==
    \A k \in DOMAIN segments :
        /\ 0 <= segments[k].downloaded
        /\ segments[k].downloaded <= ExpectedSize(segments[k])
        /\ segments[k].finished => segments[k].downloaded = ExpectedSize(segments[k])

\* C10: when start() has returned after the workers exited: if every segment
\* is finished, the completion callback was called once with success, the
\* part file and the state file are gone and the target has total_size bytes;
\* otherwise the callback was called once with failure and the part file and
\* the state file are still there.
C10_Finalize ==
    (pc = "done" /\ workers # <<>>) =>
        IF AllFinished(segments)
        THEN /\ done_cb = <<TRUE>>
             /\ ~part_file.exists
             /\ ~state_file.exists
             /\ target_file.exists
             /\ target_file.size = total_size
        ELSE /\ done_cb = <<FALSE>>
             /\ part_file.exists
             /\ state_file.exists

Incomplete(seg) == seg.downloaded < ExpectedSize(seg)

\* C11: after stop() was called while the workers ran, a segment that has
\* not received all of its bytes is never finished; and when start() returns
\* with such a segment, the completion callback was called once with
\* failure, the part file and a readable state file are kept and nothing was
\* renamed to the target.
C11_StopKeepsPart ==
    (pc \in {"workers", "done"} /\ workers # <<>> /\ ~running) =>
        /\ \A k \in DOMAIN segments :
              Incomplete(segments[k]) => ~segments[k].finished
        /\ (pc = "done" /\ \E k \in DOMAIN segments : Incomplete(segments[k])) =>
              /\ done_cb = <<FALSE>>
              /\ part_file.exists
              /\ state_file.exists /\ ~state_file.torn
              /\ ~target_file.exists

\* C12: when start() returns after the worker of a segment ended with an
\* error, that segment is not finished, every other worker has run to its
\* end, the run reported failure once, the part file and the state file are
\* kept, and the item is Stopped.
C12_WorkerErrorIsolated ==
    (pc = "done" /\ \E k \in DOMAIN workers : workers[k].err) =>
        /\ \A k \in DOMAIN workers : workers[k].err => ~segments[k].finished
        /\ \A k \in DOMAIN workers : workers[k].pc = "exit"
        /\ done_cb = <<FALSE>>
        /\ part_file.exists
        /\ state_file.exists
        /\ item_status = "Stopped"

\* C13: a download from a server that does not honor ranges, or of a
\* resource of size zero, has exactly one segment, which covers the whole
\* range.
C13_SingleSegmentFallback ==
    (pc \in {"workers", "done"} /\ workers # <<>> /\ (~srv_ranges \/ srv_size = 0)) =>
        /\ Len(segments) = 1
        /\ segments[1].start = 0
        /\ segments[1].end = total_size - 1

\* the file offsets the worker of segment k has written in this run
Written(k) == workers[k].first .. (workers[k].pos - 1)

\* C14: every worker writes only offsets inside [start, end] of its own
\* segment, and the offsets written by the workers of two distinct segments
\* are disjoint.
C14_DisjointWrites ==
    \A k \in DOMAIN workers :
        /\ Written(k) \subseteq segments[k].start .. segments[k].end
        /\ \A j \in DOMAIN workers : j # k => Written(j) \cap Written(k) = {}

\* C15: for a server that honors ranges, a direct download run that reports
\* success, after any kills, stops and resumes, leaves a target file that
\* holds the server's byte at every offset of [0, total_size).
C15_ResumeEquivalence ==
    (srv_ranges /\ pc = "done" /\ workers # <<>> /\ done_cb # <<FALSE>>) =>
        target_file = WholeFile(srv_size)

\* C16: when start() has ended, it has returned without raising and the
\* completion callback was called exactly once.
C16_CallbackOnce ==
    pc \in {"done", "raised"} => (pc = "done" /\ Len(done_cb) = 1)

\* C17: when start() has ended for a URL whose scheme is neither http nor
\* https, the refusal was reported by one completion callback with failure,
\* and no part file and no state file was created.
C17_SchemeRefused ==
    (pc \in {"done", "raised"} /\ url.scheme \notin {"http", "https"}) =>
        /\ pc = "done"
        /\ done_cb = <<FALSE>>
        /\ ~part_file.exists
        /\ ~state_file.exists

\* C18: the state file is absent or holds one complete snapshot, also after
\* a kill at any point of a save.
C18_AtomicSaves ==
    state_file.exists => ~state_file.torn

\* C19: the values the progress callback is called with in one run are
\* monotonically non-decreasing.
C19_ProgressMonotone ==
    \A k \in 1..(Len(progress_cb) - 1) : progress_cb[k] <= progress_cb[k + 1]

C19_Witness ==
    /\ pc = "workers"
    /\ Len(workers) >= 2
    /\ workers[1].buf > 0
    /\ workers[2].buf > 0
    /\ Len(progress_cb) >= 3

(***************************************************************************)
(*                    Part III : the download registry                     *)
(***************************************************************************)
\* ---- the explored inputs ----
RegUrls == {"https://example.com/a.bin", "https://example.com/b.bin"}
\* Path objects, as the sequence of their components
SavePaths == {<<"d1">>, <<"d2">>}
\* the save path of the videos and playlists added
MediaPath == <<"d1">>
\* DownloadStatus, by value
DownloadStatusValues == {"pending", "downloading", "paused", "completed", "failed"}
\* DownloadItem.progress: 0 for None, else the bytes of the snapshot
ProgressValues == {0, 1}
\* components of a save path: load_state is explored while the paths of the
\* state file are shorter
MaxPathDepth == 3
\* datetime.now() in the process that adds an item, and in a later process
\* that constructs an object while it loads
CreatedAt == [day |-> 1, hm |-> 61]
LoadedAt == [day |-> 2, hm |-> 0]

\* hashlib.md5(url.encode()).hexdigest(), as <<first 16, last 16>> characters
MD5Hex(u) ==
    CASE u = "https://example.com/a.bin" -> <<"bca7affceb35cef0", "9489de19679e74f7">>
      [] u = "https://example.com/b.bin" -> <<"99377ddf627b4ae4", "ac0a17d520d2c07f">>

\* DownloadManager._generate_id
_generate_id(u) == MD5Hex(u)[1]

\* str(path): the components, each after a separator
RECURSIVE PathStr(_)
PathStr(p) == IF p = <<>> THEN <<>> ELSE <<"/", Head(p)>> \o PathStr(Tail(p))

\* Path(str): the components between the separators
RECURSIVE Path(_)
Path(str) ==
    IF str = <<>> THEN <<>>
    ELSE IF Head(str) = "/" THEN Path(Tail(str))
    ELSE <<Head(str)>> \o Path(Tail(str))

\* PlaylistDownload.sanitize_filename, on the titles explored
sanitize_filename(name) == IF name = "a/b" THEN "a_b" ELSE name

\* format_info = None, and a VideoFormat by the fields to_dict writes
NoFormat == [format_id |-> "None", ext |-> "None", resolution |-> "None"]
Mp4 == [format_id |-> "22", ext |-> "mp4", resolution |-> "720p"]

\* data.get(key, default)
Get(data, key, default) == IF key \in DOMAIN data THEN data[key] ELSE default

\* dict.update
Update(base, more) ==
    [k \in DOMAIN base \cup DOMAIN more |-> IF k \in DOMAIN more THEN more[k] ELSE base[k]]

\* DownloadItem(url, save_path), constructed at time now
NewDownloadItem(u, path, now) ==
    [kind |-> "item", url |-> u, save_path |-> path, status |-> "pending",
     download_type |-> "direct", created_at |-> now, format_info |-> NoFormat,
     error_message |-> "None", progress |-> 0]

\* DownloadItem(url, save_path): the dataclass defaults
DownloadItem(u, path) == NewDownloadItem(u, path, CreatedAt)

\* VideoDownload(url, save_path, title) and its __post_init__; title stands
\* for the four descriptive fields
VideoDownload(u, path, title, now) ==
    Update([NewDownloadItem(u, path, now) EXCEPT !.download_type = "streaming_video"],
           [kind |-> "video", title |-> title])

\* PlaylistDownload(url, save_path, playlist_title, videos) and its
\* __post_init__
PlaylistDownload(u, path, playlist_title, videos, now) ==
    Update([NewDownloadItem(u, path, now) EXCEPT
               !.download_type = "playlist",
               !.save_path = path \o <<sanitize_filename(playlist_title)>>],
           [kind |-> "playlist", playlist_title |-> playlist_title, videos |-> videos])

\* DownloadItem.to_dict: progress is not persisted
BaseDict(item) ==
    [url |-> item.url, save_path |-> PathStr(item.save_path), status |-> item.status,
     download_type |-> item.download_type, created_at |-> isoformat(item.created_at),
     format_info |-> item.format_info, error_message |-> item.error_message]

\* VideoDownload.to_dict
VideoDict(item) == Update(BaseDict(item), [title |-> item.title])

\* PlaylistDownload.to_dict
PlaylistDict(item) ==
    Update(BaseDict(item),
           [playlist_title |-> item.playlist_title,
            videos |-> [k \in DOMAIN item.videos |-> VideoDict(item.videos[k])],
            completed_count |->
                Cardinality({k \in DOMAIN item.videos : item.videos[k].status = "completed"}),
            total_videos |-> Len(item.videos)])

\* item.to_dict(), by the class of the item
to_dict(item) ==
    CASE item.kind = "playlist" -> PlaylistDict(item)
      [] item.kind = "video" -> VideoDict(item)
      [] OTHER -> BaseDict(item)

\* DownloadManager._deserialize_video
_deserialize_video(data) ==
    [VideoDownload(data.url, Path(data.save_path), Get(data, "title", "None"), LoadedAt)
        EXCEPT !.status = Get(data, "status", "pending"),
               !.error_message = Get(data, "error_message", "None")]

\* DownloadManager._deserialize_download
_deserialize_download(data) ==
    LET download_type == Get(data, "download_type", "direct")
        videos == Get(data, "videos", <<>>)
        item ==
            CASE download_type = "playlist" ->
                   PlaylistDownload(data.url, Path(data.save_path),
                                    Get(data, "playlist_title", "Playlist"),
                                    [k \in DOMAIN videos |-> _deserialize_video(videos[k])],
                                    LoadedAt)
              [] download_type = "streaming_video" ->
                   VideoDownload(data.url, Path(data.save_path),
                                 Get(data, "title", "None"), LoadedAt)
              [] OTHER -> NewDownloadItem(data.url, Path(data.save_path), LoadedAt)
    IN [item EXCEPT
          !.status = Get(data, "status", "pending"),
          !.download_type = download_type,
          !.error_message = Get(data, "error_message", "None"),
          !.created_at = IF "created_at" \in DOMAIN data
                         THEN fromisoformat(data.created_at) ELSE @,
          !.format_info = IF Get(data, "format_info", NoFormat) # NoFormat
                          THEN data.format_info ELSE @]

\* _deserialize_download: data["url"] and data["save_path"] raise KeyError
Raises(data) == "url" \notin DOMAIN data \/ "save_path" \notin DOMAIN data

\* self.downloads[download_id] = item
Put(reg, id, item) ==
    [i \in DOMAIN reg \cup {id} |-> IF i = id THEN item ELSE reg[i]]

NoRegFile == [exists |-> FALSE, torn |-> FALSE, content |-> <<>>]
\* a file whose text is no JSON document: the temporary file when the
\* process dies inside write_text, the state file when its text was cut
TornRegFile == [exists |-> TRUE, torn |-> TRUE, content |-> <<>>]

\* DownloadManager.save_state: the file after write_text to the temporary
\* file and replace over the state file
SavedState(reg) ==
    [exists |-> TRUE, torn |-> FALSE,
     content |-> [i \in DOMAIN reg |-> to_dict(reg[i])]]

NoAdd == [url |-> "None", id |-> "None", had |-> FALSE, status |-> "None",
          progress |-> 0]

\* load_state: json.loads or an entry raises, the except clause runs
LoadFails(file) ==
    file.exists /\ (file.torn \/ \E i \in DOMAIN file.content : Raises(file.content[i]))

\* self.state_file.rename(backup): the backup file, by the ids of its entries
Renamed(file) == [exists |-> TRUE, torn |-> file.torn, ids |-> DOMAIN file.content]

\* load_state: self.downloads after the call
LoadedDownloads(file) ==
    IF file.exists /\ ~LoadFails(file)
    THEN [i \in DOMAIN file.content |-> _deserialize_download(file.content[i])]
    ELSE [i \in {} |-> NoAdd]

\* ---- operations ----
\* DownloadManager.add_download(item)
StoreItem(item) ==
    LET id == _generate_id(item.url)
        had == id \in DOMAIN registry
    IN /\ registry' = Put(registry, id, item)
       /\ registry_file' = SavedState(registry')
       /\ registry_tmp' = NoRegFile
       /\ lastAdd' = [url |-> item.url, id |-> id, had |-> had,
                      status |-> IF had THEN registry[id].status ELSE "None",
                      progress |-> IF had THEN registry[id].progress ELSE 0]
       /\ UNCHANGED registry_bak
       /\ UNCHANGED <<varsQ, varsDL, varsYt, varsHttp, varsPrep, varsNet, varsMon>>

\* DownloadManager.add_download(DownloadItem(url, save_path))
add_download(u, path) == StoreItem(DownloadItem(u, path))

\* DownloadManager.add_download(VideoDownload(url, save_path, title, format))
add_video(u, path) ==
    StoreItem([VideoDownload(u, path, "clip", CreatedAt) EXCEPT !.format_info = Mp4])

\* DownloadManager.add_download(PlaylistDownload(url, save_path, title,
\* videos)), a playlist of one video that is complete
add_playlist(u, path) ==
    StoreItem(PlaylistDownload(u, path, "a/b",
               <<[VideoDownload(u, path \o <<"a_b">>, "clip", CreatedAt)
                     EXCEPT !.status = "completed"]>>,
               CreatedAt))

\* DownloadManager.update_status(download_id, status)
update_status(id, status) ==
    /\ id \in DOMAIN registry
    /\ registry' = [registry EXCEPT ![id].status = status]
    /\ registry_file' = SavedState(registry')
    /\ registry_tmp' = NoRegFile
    /\ lastAdd' = NoAdd
    /\ UNCHANGED registry_bak
    /\ UNCHANGED <<varsQ, varsDL, varsYt, varsHttp, varsPrep, varsNet, varsMon>>

\* the owner of the item stores a progress snapshot in item.progress
report_progress(id, p) ==
    /\ id \in DOMAIN registry
    /\ registry[id].progress # p
    /\ registry' = [registry EXCEPT ![id].progress = p]
    /\ lastAdd' = NoAdd
    /\ UNCHANGED <<registry_file, registry_tmp, registry_bak>>
    /\ UNCHANGED <<varsQ, varsDL, varsYt, varsHttp, varsPrep, varsNet, varsMon>>

\* DownloadManager.remove_download(download_id)
remove_download(id) ==
    /\ id \in DOMAIN registry
    /\ registry' = [i \in DOMAIN registry \ {id} |-> registry[i]]
    /\ registry_file' = SavedState(registry')
    /\ registry_tmp' = NoRegFile
    /\ lastAdd' = NoAdd
    /\ UNCHANGED registry_bak
    /\ UNCHANGED <<varsQ, varsDL, varsYt, varsHttp, varsPrep, varsNet, varsMon>>

\* the keys an edit of the state file removes from an entry
RemovableKeys == {"url", "status", "created_at", "download_type"}

\* an entry that holds the keys to_dict writes
Complete(file) == \A i \in DOMAIN file.content : RemovableKeys \subseteq DOMAIN file.content[i]

\* the state file load_state reads was edited outside the program: a key of
\* one entry is removed (a file of another version, an edit by hand); one
\* edit between two saves
EditFile(id, key) ==
    /\ registry_file.exists
    /\ ~registry_file.torn
    /\ Complete(registry_file)
    /\ id \in DOMAIN registry_file.content
    /\ LET entry == registry_file.content[id]
       IN registry_file' = [registry_file EXCEPT
              !.content[id] = [k \in DOMAIN entry \ {key} |-> entry[k]]]
    /\ UNCHANGED <<registry, registry_tmp, registry_bak, lastAdd>>
    /\ UNCHANGED <<varsQ, varsDL, varsYt, varsHttp, varsPrep, varsNet, varsMon>>

\* the text of the state file load_state reads is cut: json.loads raises
TruncateFile ==
    /\ registry_file.exists
    /\ ~registry_file.torn
    /\ registry_file' = TornRegFile
    /\ UNCHANGED <<registry, registry_tmp, registry_bak, lastAdd>>
    /\ UNCHANGED <<varsQ, varsDL, varsYt, varsHttp, varsPrep, varsNet, varsMon>>

\* the process ends and a new DownloadManager is constructed: load_state;
\* torn is TRUE when the process was killed inside the write_text of a save
Restart(torn) ==
    /\ \A i \in DOMAIN registry_file.content :
          "save_path" \in DOMAIN registry_file.content[i]
             => Len(Path(registry_file.content[i].save_path)) < MaxPathDepth
    /\ registry' = LoadedDownloads(registry_file)
    /\ registry_file' = IF LoadFails(registry_file) THEN NoRegFile ELSE registry_file
    /\ registry_bak' = IF LoadFails(registry_file) THEN Renamed(registry_file)
                       ELSE registry_bak
    /\ registry_tmp' = IF torn THEN TornRegFile ELSE registry_tmp
    /\ lastAdd' = NoAdd
    /\ UNCHANGED <<varsQ, varsDL, varsYt, varsHttp, varsPrep, varsNet, varsMon>>

NextRegistry ==
    \/ \E u \in RegUrls, path \in SavePaths : add_download(u, path)
    \/ \E id \in DOMAIN registry, st \in DownloadStatusValues : update_status(id, st)
    \/ \E id \in DOMAIN registry, p \in ProgressValues : report_progress(id, p)
    \/ \E id \in DOMAIN registry : remove_download(id)
    \/ \E torn \in BOOLEAN : Restart(torn)

InitRegistry == InitUnused /\ InitIdle /\ InitNoRegistry /\ InitNoYt /\ InitNoHttp /\ InitNoPrep /\ InitNoNet /\ InitNoMon

SpecRegistry == InitRegistry /\ [][NextRegistry]_vars

\* ---- the registry of items of every class, and the state files a new
\* process can find ----
\* the statuses update_status is called with while a download runs
RunStatuses == {"downloading", "completed"}

NextLoad ==
    \/ \E u \in RegUrls : add_download(u, MediaPath)
    \/ \E u \in RegUrls : add_video(u, MediaPath)
    \/ \E u \in RegUrls : add_playlist(u, MediaPath)
    \/ \E id \in DOMAIN registry, st \in RunStatuses : update_status(id, st)
    \/ \E id \in DOMAIN registry_file.content, key \in RemovableKeys : EditFile(id, key)
    \/ TruncateFile
    \/ Restart(FALSE)

InitLoad == InitUnused /\ InitIdle /\ InitNoRegistry /\ InitNoYt /\ InitNoHttp /\ InitNoPrep /\ InitNoNet /\ InitNoMon

SpecLoad == InitLoad /\ [][NextLoad]_vars

(***************************************************************************)
(*                 Part IV : the yt-dlp process wrapper                    *)
(***************************************************************************)
\* YtDlpProcess.max_retries
max_retries == 3
\* the exit codes of the tool when it ends by itself, and the return code
\* of a process that SIGTERM ended
ExitCodes == {0, 1}
KilledBySigterm == 0 - 15

\* subprocess.Popen(cmd, ..., preexec_fn=os.setsid): a running tool. stopped:
\* SIGSTOP was delivered; term: SIGTERM was sent; reaped: wait() has returned
Popen ==
    [exists |-> TRUE, alive |-> TRUE, stopped |-> FALSE, term |-> FALSE,
     reaped |-> FALSE, returncode |-> 0]

\* os.killpg(os.getpgid(self.process.pid), sig) raises for a process that
\* wait() has reaped
CanSignal(p) == p.exists /\ ~p.reaped

\* ---- the thread that runs start() ----
\* start(): self.state = ProcessState.RUNNING
YtStart ==
    /\ yt_pc = "idle"
    /\ yt_state' = "running"
    /\ yt_pc' = "loop"
    /\ UNCHANGED <<retry_count, process, yt_cb, yt_terminated, yt_call>>
    /\ UNCHANGED <<varsQ, varsDL, varsReg, varsHttp, varsPrep, varsNet, varsMon>>

\* the while test holds and Popen is called; it raises when popen_ok is
\* FALSE, and the except clause counts a retry
YtSpawn(popen_ok) ==
    /\ yt_pc = "loop"
    /\ retry_count < max_retries
    /\ IF popen_ok
       THEN /\ process' = Popen
            /\ yt_pc' = "reading"
            /\ UNCHANGED retry_count
       ELSE /\ retry_count' = retry_count + 1
            /\ UNCHANGED <<process, yt_pc>>
    /\ UNCHANGED <<yt_state, yt_cb, yt_terminated, yt_call>>
    /\ UNCHANGED <<varsQ, varsDL, varsReg, varsHttp, varsPrep, varsNet, varsMon>>

\* the while test fails: the code after the loop
YtGiveUp ==
    /\ yt_pc = "loop"
    /\ retry_count >= max_retries
    /\ yt_state' = "failed"
    /\ yt_cb' = Append(yt_cb, FALSE)
    /\ yt_pc' = "returned"
    /\ UNCHANGED <<retry_count, process, yt_terminated, yt_call>>
    /\ UNCHANGED <<varsQ, varsDL, varsReg, varsHttp, varsPrep, varsNet, varsMon>>

\* the tool prints a line with "HTTP Error", "Connection reset" or "Network
\* unreachable": retry_count += 1, self.terminate(), break
YtConnectionError ==
    /\ yt_pc = "reading"
    /\ process.alive
    /\ ~process.stopped
    /\ retry_count' = retry_count + 1
    /\ process' = [process EXCEPT !.term = TRUE]
    /\ yt_state' = "stopped"
    /\ yt_pc' = "waiting"
    /\ UNCHANGED <<yt_cb, yt_terminated, yt_call>>
    /\ UNCHANGED <<varsQ, varsDL, varsReg, varsHttp, varsPrep, varsNet, varsMon>>

\* the output of the tool has ended and self.process.wait() returns; the
\* test of the return code
YtWait ==
    /\ yt_pc \in {"reading", "waiting"}
    /\ process.exists
    /\ ~process.alive
    /\ process' = [process EXCEPT !.reaped = TRUE]
    /\ IF process.returncode = 0
       THEN /\ yt_state' = "completed"
            /\ yt_cb' = Append(yt_cb, TRUE)
            /\ yt_pc' = "returned"
       ELSE /\ yt_pc' = "loop"
            /\ UNCHANGED <<yt_state, yt_cb>>
    /\ UNCHANGED <<retry_count, yt_terminated, yt_call>>
    /\ UNCHANGED <<varsQ, varsDL, varsReg, varsHttp, varsPrep, varsNet, varsMon>>

\* ---- the tool ----
\* the tool process ends: by SIGTERM when one was sent, else by itself
ProcExit(code) ==
    /\ process.alive
    /\ ~process.stopped
    /\ process' = [process EXCEPT
           !.alive = FALSE,
           !.returncode = IF process.term THEN KilledBySigterm ELSE code]
    /\ UNCHANGED <<yt_pc, yt_state, retry_count, yt_cb, yt_terminated, yt_call>>
    /\ UNCHANGED <<varsQ, varsDL, varsReg, varsHttp, varsPrep, varsNet, varsMon>>

\* ---- the thread of the user ----
\* YtDlpProcess.terminate()
terminate ==
    /\ yt_pc \in {"loop", "reading", "waiting"}
    /\ CanSignal(process)
    /\ process' = [process EXCEPT !.term = TRUE]
    /\ yt_state' = "stopped"
    /\ yt_terminated' = (yt_terminated \/ process.alive)
    /\ yt_call' = [op |-> "terminate", ret |-> TRUE]
    /\ UNCHANGED <<yt_pc, retry_count, yt_cb>>
    /\ UNCHANGED <<varsQ, varsDL, varsReg, varsHttp, varsPrep, varsNet, varsMon>>

\* (mutation of PauseAllowed: the state is not tested)
PauseAllowed_any(p, state) == p.exists

\* pause: if self.process and self.state == ProcessState.RUNNING
PauseAllowed(p, state) == p.exists /\ state = "running"

\* resume: if self.process and self.state == ProcessState.PAUSED
ResumeAllowed(p, state) == p.exists /\ state = "paused"

\* YtDlpProcess.pause(): True after SIGSTOP was sent, False when the test
\* fails or killpg raises
pause ==
    /\ IF PauseAllowed(process, yt_state) /\ CanSignal(process)
       THEN /\ process' = [process EXCEPT !.stopped = process.alive]
            /\ yt_state' = "paused"
            /\ yt_call' = [op |-> "pause", ret |-> TRUE]
       ELSE /\ yt_call' = [op |-> "pause", ret |-> FALSE]
            /\ UNCHANGED <<process, yt_state>>
    /\ UNCHANGED <<yt_pc, retry_count, yt_cb, yt_terminated>>
    /\ UNCHANGED <<varsQ, varsDL, varsReg, varsHttp, varsPrep, varsNet, varsMon>>

\* YtDlpProcess.resume(): True after SIGCONT was sent, False when the test
\* fails or killpg raises
resume ==
    /\ IF ResumeAllowed(process, yt_state) /\ CanSignal(process)
       THEN /\ process' = [process EXCEPT !.stopped = FALSE]
            /\ yt_state' = "running"
            /\ yt_call' = [op |-> "resume", ret |-> TRUE]
       ELSE /\ yt_call' = [op |-> "resume", ret |-> FALSE]
            /\ UNCHANGED <<process, yt_state>>
    /\ UNCHANGED <<yt_pc, retry_count, yt_cb, yt_terminated>>
    /\ UNCHANGED <<varsQ, varsDL, varsReg, varsHttp, varsPrep, varsNet, varsMon>>

\* the steps of the thread in start(), and the end of the tool
YtThread == YtStart \/ (\E popen_ok \in BOOLEAN : YtSpawn(popen_ok)) \/ YtGiveUp \/ YtWait
ToolExit == \E code \in ExitCodes : ProcExit(code)

NextYt ==
    \/ YtStart
    \/ \E popen_ok \in BOOLEAN : YtSpawn(popen_ok)
    \/ YtGiveUp
    \/ YtConnectionError
    \/ YtWait
    \/ \E code \in ExitCodes : ProcExit(code)
    \/ terminate
    \/ pause
    \/ resume

InitYt == InitUnused /\ InitIdle /\ InitNoRegistry /\ InitNoYt /\ InitNoHttp /\ InitNoPrep /\ InitNoNet /\ InitNoMon

SpecYt == InitYt /\ [][NextYt]_vars

\* the thread of start() is scheduled, and a tool that can end ends
SpecYtLive == InitYt /\ [][NextYt]_vars /\ WF_vars(YtThread) /\ WF_vars(ToolExit)

(***************************************************************************)
(*            Part V : the HTTP ingress of the browser integration         *)
(***************************************************************************)
\* requests received in one exploration
MaxRequests == 2
Methods == {"GET", "POST"}
Paths == {"/add_download", "/health", "/other"}
\* request bodies: a text that is no JSON, and JSON objects without a url,
\* with a url that is none, and with a URL
Bodies == {[json |-> FALSE], [json |-> TRUE], [json |-> TRUE, url |-> "not a url"],
           [json |-> TRUE, url |-> "https://example.com/a.bin"]}

\* MainWindow.__init__ and the rest of the class assign no attribute
\* download_manager: self.main_window.download_manager raises AttributeError
HasDownloadManager == FALSE

\* send_response(code), send_header("Content-Type", "application/json"),
\* end_headers(), wfile.write(json.dumps({"status": status, ...}))
JsonResponse(code, status) == [status |-> code, ctype |-> "json", body |-> status]

\* BaseHTTPRequestHandler.send_error(code): a status line and an HTML page
send_error(code) == [status |-> code, ctype |-> "html", body |-> "page"]

\* the except clauses: send_header, end_headers and wfile.write without
\* send_response, so the connection carries no status line (status 0)
ExceptResponse == [status |-> 0, ctype |-> "json", body |-> "error"]

\* QMetaObject.invokeMethod(target, method, QueuedConnection, args)
Queued(method, u) == [method |-> method, url |-> u]
WakeCalls == <<Queued("show", "None"), Queued("raise_", "None"),
               Queued("activateWindow", "None")>>

\* start_http_server(main_window): with and without a main window
InitHttpServer ==
    /\ main_window \in {"None", "MainWindow"}
    /\ http_pc = "idle"
    /\ http_req = NoRequest
    /\ http_resp = <<>>
    /\ ui_queue = <<>>
    /\ ui_started = {}
    /\ http_count = 0

\* ---- the server thread ----
\* a request arrives and its handler object is constructed
Receive(method, path, body) ==
    /\ http_pc = "idle"
    /\ http_count < MaxRequests
    /\ http_req' = [method |-> method, path |-> path, body |-> body]
    /\ http_resp' = <<>>
    /\ http_pc' = "handle"
    /\ http_count' = http_count + 1
    /\ UNCHANGED <<main_window, ui_queue, ui_started>>
    /\ UNCHANGED <<varsQ, varsDL, varsReg, varsYt, varsPrep, varsNet, varsMon>>

\* MergenHTTPHandler.do_GET
do_GET ==
    /\ http_pc = "handle"
    /\ http_req.method = "GET"
    /\ http_resp' = IF http_req.path \in {"/health", "/"}
                    THEN Append(http_resp, JsonResponse(200, "ok"))
                    ELSE http_resp
    /\ http_pc' = "done"
    /\ UNCHANGED <<main_window, http_req, ui_queue, ui_started, http_count>>
    /\ UNCHANGED <<varsQ, varsDL, varsReg, varsYt, varsPrep, varsNet, varsMon>>

\* MergenHTTPHandler.do_POST, for the paths other than /register
do_POST ==
    /\ http_pc = "handle"
    /\ http_req.method = "POST"
    /\ IF http_req.path = "/add_download"
       THEN /\ http_pc' = "add"
            /\ UNCHANGED http_resp
       ELSE /\ http_resp' = Append(http_resp, send_error(404))
            /\ http_pc' = "done"
    /\ UNCHANGED <<main_window, http_req, ui_queue, ui_started, http_count>>
    /\ UNCHANGED <<varsQ, varsDL, varsReg, varsYt, varsPrep, varsNet, varsMon>>

\* MergenHTTPHandler.handle_add_download
handle_add_download ==
    /\ http_pc = "add"
    /\ LET data == http_req.body
           u == Get(data, "url", "")
       IN IF ~data.json
          THEN \* json.loads raises
               /\ http_resp' = Append(http_resp, ExceptResponse)
               /\ UNCHANGED ui_queue
          ELSE IF u = ""
          THEN /\ http_resp' = Append(http_resp, send_error(400))
               /\ UNCHANGED ui_queue
          ELSE IF main_window = "None"
          THEN /\ http_resp' = Append(http_resp, JsonResponse(200, "success"))
               /\ UNCHANGED ui_queue
          ELSE IF HasDownloadManager
          THEN /\ ui_queue' = ui_queue \o WakeCalls \o <<Queued("add_download", u)>>
               /\ http_resp' = Append(http_resp, JsonResponse(200, "success"))
          ELSE \* the three wake calls are queued, then AttributeError
               /\ ui_queue' = ui_queue \o WakeCalls
               /\ http_resp' = Append(http_resp, ExceptResponse)
    /\ http_pc' = "done"
    /\ UNCHANGED <<main_window, http_req, ui_started, http_count>>
    /\ UNCHANGED <<varsQ, varsDL, varsReg, varsYt, varsPrep, varsNet, varsMon>>

\* the handler has returned and the connection is closed
Finish ==
    /\ http_pc = "done"
    /\ http_pc' = "idle"
    /\ http_req' = NoRequest
    /\ http_resp' = <<>>
    /\ UNCHANGED <<main_window, ui_queue, ui_started, http_count>>
    /\ UNCHANGED <<varsQ, varsDL, varsReg, varsYt, varsPrep, varsNet, varsMon>>

\* ---- the UI thread ----
\* the event loop runs the queued call at the head of its queue
UiRun ==
    /\ ui_queue # <<>>
    /\ ui_queue' = Tail(ui_queue)
    /\ ui_started' = IF Head(ui_queue).method = "add_download"
                     THEN ui_started \cup {Head(ui_queue).url}
                     ELSE ui_started
    /\ UNCHANGED <<main_window, http_pc, http_req, http_resp, http_count>>
    /\ UNCHANGED <<varsQ, varsDL, varsReg, varsYt, varsPrep, varsNet, varsMon>>

NextHttp ==
    \/ \E method \in Methods, path \in Paths, body \in Bodies : Receive(method, path, body)
    \/ do_GET
    \/ do_POST
    \/ handle_add_download
    \/ Finish
    \/ UiRun

InitHttp == InitUnused /\ InitIdle /\ InitNoRegistry /\ InitNoYt /\ InitHttpServer
            /\ InitNoPrep /\ InitNoNet /\ InitNoMon

SpecHttp == InitHttp /\ [][NextHttp]_vars

(***************************************************************************)
(*                    Properties of the download registry                  *)
(***************************************************************************)
\* C20: add_download of a URL the registry already holds returns the id of
\* the existing item, the 16 first hex characters of the URL's MD5, leaves
\* the status and the progress of that item as they were, and the registry
\* holds one item for the URL.
C20_AddExistingKeepsProgress ==
    lastAdd.had =>
        /\ lastAdd.id = MD5Hex(lastAdd.url)[1]
        /\ lastAdd.id \in DOMAIN registry
        /\ registry[lastAdd.id].status = lastAdd.status
        /\ registry[lastAdd.id].progress = lastAdd.progress
        /\ Cardinality({i \in DOMAIN registry : registry[i].url = lastAdd.url}) = 1

\* a new DownloadManager is constructed and load_state has run
Loads == \E torn \in BOOLEAN : Restart(torn)

\* C21: after load_state no item of the registry has the status
\* downloading: an entry persisted as downloading is restored as stopped,
\* and an entry persisted with another status keeps it.
C21_NoDownloadingAfterLoad ==
    [][Loads =>
          \A i \in DOMAIN registry' :
              /\ registry'[i].status # "downloading"
              /\ "status" \in DOMAIN registry_file.content[i] =>
                    registry'[i].status =
                        IF registry_file.content[i].status = "downloading"
                        THEN "stopped" ELSE registry_file.content[i].status
      ]_vars

\* C22: load_state of a state file that save_state wrote restores, under
\* every id of the file, an item whose to_dict is the entry of the file:
\* a direct item, a video, and a playlist with its videos; the file is
\* left as it was, so saving and loading again changes nothing.
C22_SaveLoadRoundTrip ==
    [][(Loads /\ registry_file.exists /\ ~registry_file.torn /\ Complete(registry_file)) =>
          /\ registry_file' = registry_file
          /\ DOMAIN registry' = DOMAIN registry_file.content
          /\ \A i \in DOMAIN registry' : to_dict(registry'[i]) = registry_file.content[i]
      ]_vars

\* C23: load_state fails as a whole only when the text of the state file is
\* no JSON document: then the file is renamed to the backup and the
\* registry is empty. A file that parses is left in place and every entry
\* of it is restored, an entry that lacks a field with the default of the
\* field.
C23_LoadTolerant ==
    [][Loads =>
          /\ (registry_file.exists /\ registry_file.torn) =>
                /\ registry' = <<>>
                /\ ~registry_file'.exists
                /\ registry_bak' = Renamed(registry_file)
          /\ (registry_file.exists /\ ~registry_file.torn) =>
                /\ registry_file' = registry_file
                /\ registry_bak' = registry_bak
                /\ DOMAIN registry' = DOMAIN registry_file.content
                /\ \A i \in DOMAIN registry' :
                      /\ registry'[i].status = Get(registry_file.content[i], "status", "pending")
                      /\ registry'[i].download_type =
                            Get(registry_file.content[i], "download_type", "direct")
      ]_vars

(***************************************************************************)
(*                      Properties of resume                               *)
(***************************************************************************)
Valid(segs) ==
    \A k \in DOMAIN segs :
        /\ segs[k].downloaded <= ExpectedSize(segs[k])
        /\ segs[k].finished => segs[k].downloaded = ExpectedSize(segs[k])

\* C29: the segment list a resume loads and validates has, for every segment,
\* downloaded <= end - start + 1 and finished only with downloaded = end -
\* start + 1: a finished segment with too few bytes is unfinished with its
\* counter kept, a segment with too many bytes is clamped and finished;
\* validating the result again changes nothing, and a list that was valid
\* in the state file is loaded unchanged.
C29_ValidateSegments ==
    [][(pc = "idle" /\ pc' = "workers" /\ resume_log' = "resumed") =>
          LET loaded == state_file.segments
          IN /\ Valid(segments')
             /\ Len(segments') = Len(loaded)
             /\ \A k \in DOMAIN loaded :
                   /\ segments'[k].start = loaded[k].start
                   /\ segments'[k].end = loaded[k].end
                   /\ (loaded[k].finished /\ loaded[k].downloaded < ExpectedSize(loaded[k]))
                         => (~segments'[k].finished
                               /\ segments'[k].downloaded = loaded[k].downloaded)
                   /\ loaded[k].downloaded > ExpectedSize(loaded[k])
                         => (segments'[k].finished
                               /\ segments'[k].downloaded = ExpectedSize(loaded[k]))
             /\ validate_segments(segments') = segments'
             /\ Valid(loaded) => segments' = loaded
      ]_vars

C29_Witness ==
    /\ resume_log = "resumed"
    /\ pc = "workers"
    /\ running
    /\ \A k \in DOMAIN workers : workers[k].pc = "queued"
    /\ Len(segments) = 2
    /\ state_file.segments[1].downloaded > ExpectedSize(segments[1])
    /\ state_file.segments[2].finished
    /\ state_file.segments[2].downloaded < ExpectedSize(segments[2])
    /\ segments[1].finished
    /\ ~segments[2].finished

\* C30: when start() finds a readable state file and no part file, and the
\* probe succeeds, the download starts fresh: the size is the probed one,
\* the part file is newly allocated, the segments are new with downloaded =
\* 0 and not finished, and the persisted state is the new one.
C30_MissingPartStartsFresh ==
    [][(pc = "idle" /\ pc' = "workers" /\ state_file.exists /\ ~state_file.torn
          /\ ~part_file.exists) =>
          /\ resume_log' = "no part"
          /\ total_size' = srv_size
          /\ part_file' = Allocated(srv_size)
          /\ segments' = NewSegments(srv_size, worker_count')
          /\ \A k \in DOMAIN segments' :
                segments'[k].downloaded = 0 /\ ~segments'[k].finished
          /\ downloaded_total' = 0
          /\ state_file' = Snapshot(srv_size, segments')
      ]_vars

C30_Witness ==
    /\ resume_log = "no part"
    /\ pc = "workers"
    /\ part_file.exists
    /\ Len(segments) = 2
    /\ \A k \in DOMAIN workers : workers[k].pc = "queued"

(***************************************************************************)
(*                 Properties of the yt-dlp process wrapper                *)
(***************************************************************************)
\* C24: start() returns with an outcome the exit code of the tool decides:
\* when it has returned, either the state is completed and the callback
\* was called once with success after an exit code 0, or the state is
\* failed and the callback was called once with failure; and whenever the
\* tool has ended with a non-zero exit code, start() returns, unless the
\* user holds the tool by pause() or has terminated it.
C24_ExitCodeDecides ==
    /\ [](yt_pc = "returned" =>
            \/ yt_state = "completed" /\ yt_cb = <<TRUE>> /\ process.returncode = 0
            \/ yt_state = "failed" /\ yt_cb = <<FALSE>>)
    /\ (process.exists /\ ~process.alive /\ process.returncode # 0 /\ ~yt_terminated)
          ~> (yt_pc = "returned" \/ process.stopped \/ yt_terminated)

\* C25: the terminate() the user calls on a running tool sends SIGTERM to
\* the tool; from then on no tool process is spawned and no success is
\* reported; and start() returns.
C25_TerminateEnds ==
    /\ [][(~yt_terminated /\ yt_terminated') => process'.term]_vars
    /\ [][yt_terminated => ~(process'.alive /\ ~process.alive)]_vars
    /\ [](yt_terminated => yt_cb # <<TRUE>>)
    /\ yt_terminated ~> (yt_pc = "returned")

(***************************************************************************)
(*                    Properties of the HTTP ingress                       *)
(***************************************************************************)
\* the handler of a POST /add_download whose body is a JSON object has returned
AddHandled ==
    /\ http_pc = "done"
    /\ http_req.method = "POST"
    /\ http_req.path = "/add_download"
    /\ http_req.body.json

\* the url of the request is a URL
WellFormedUrl(u) == u = "https://example.com/a.bin"

\* the enqueue of u was handed to the UI thread
Handed(u) ==
    \/ u \in ui_started
    \/ \E k \in DOMAIN ui_queue : ui_queue[k] = Queued("add_download", u)

Success(resp) == resp.status = 200 /\ resp.body = "success"

\* C26: when the handler of a POST /add_download has returned, a request
\* without a url or with a url that is no URL was answered with status 400
\* and nothing of it was handed on, and a success answer was given only
\* if the enqueue of the url was handed on.
C26_BadUrlRefused ==
    AddHandled =>
        LET u == Get(http_req.body, "url", "")
        IN /\ ~WellFormedUrl(u) =>
                 /\ Len(http_resp) = 1
                 /\ http_resp[1].status = 400
                 /\ ~Handed(u)
           /\ (\E k \in DOMAIN http_resp : Success(http_resp[k])) => Handed(u)

\* C27: when a handler has returned, the connection carries one response,
\* it has a status line, a response of status 400 or more has the JSON
\* body {status: error, message}, and a request with an unknown path, with
\* a body that is no JSON or without a url has a status of 400 or more.
C27_OneWellFormedResponse ==
    http_pc = "done" =>
        /\ Len(http_resp) = 1
        /\ http_resp[1].status # 0
        /\ http_resp[1].status >= 400 =>
              (http_resp[1].ctype = "json" /\ http_resp[1].body = "error")
        /\ (\/ http_req.path = "/other"
            \/ (http_req.method = "POST" /\ http_req.path = "/add_download"
                  /\ Get(http_req.body, "url", "") = ""))
              => http_resp[1].status >= 400

\* C28: when the handler of a POST /add_download with a URL has returned,
\* the enqueue of the URL was handed to the UI thread and the answer is a
\* success; and the UI thread has not begun the download of a URL while
\* the handler of the request is before its response.
C28_ResponseBeforeDownload ==
    /\ (AddHandled /\ WellFormedUrl(Get(http_req.body, "url", ""))) =>
          /\ Handed(http_req.body.url)
          /\ Len(http_resp) = 1
          /\ Success(http_resp[1])
    /\ (http_pc = "add" /\ http_count = 1) =>
          Get(http_req.body, "url", "") \notin ui_started

\* C37: pause() takes effect only in state running: it then stops the
\* tool and the state is paused; resume() takes effect only in state
\* paused: it then continues the tool and the state is running; a call in
\* another state returns False and changes neither the state nor the
\* process, and so does a call that returns False.
C37_PauseResumeMachine ==
    /\ [][pause =>
            /\ yt_call'.ret => (yt_state = "running" /\ yt_state' = "paused"
                                  /\ process' = [process EXCEPT !.stopped = process.alive])
            /\ ~yt_call'.ret => (yt_state' = yt_state /\ process' = process)
            /\ yt_state # "running" => ~yt_call'.ret]_vars
    /\ [][resume =>
            /\ yt_call'.ret => (yt_state = "paused" /\ yt_state' = "running"
                                  /\ process' = [process EXCEPT !.stopped = FALSE])
            /\ ~yt_call'.ret => (yt_state' = yt_state /\ process' = process)
            /\ yt_state # "paused" => ~yt_call'.ret]_vars

C37_Witness ==
    /\ yt_call = [op |-> "resume", ret |-> TRUE]
    /\ yt_state = "running"
    /\ process.alive
    /\ ~process.stopped
    /\ retry_count > 0

(***************************************************************************)
(*              Properties of the scheduler when a download ends           *)
(***************************************************************************)
\* the download of list row i ends by success or failure
Ends(i) == \E success \in BOOLEAN : update_download_status(i, success)

\* C36: an item whose download has ended, by success, failure or a stop of
\* the user, has its id outside active_downloads: every item of
\* active_downloads is downloading. The step that ends a download removes
\* its id; when the queue of the item is not active it dispatches nothing,
\* and when it is active the items it dispatches are eligible items of
\* that queue and their ids are the ones added to active_downloads.
C36_EndFreesSlot ==
    /\ [](\A i \in DOMAIN downloads :
             downloads[i].id \in active_downloads
                => downloads[i].status \in DownloadingStatuses)
    /\ [][\A i \in DOMAIN downloads :
             (Ends(i) /\ downloads[i].queue # "") =>
                LET q == downloads[i].queue
                    act1 == active_downloads \ {downloads[i].id}
                IN /\ q \notin active_queues =>
                         (dispatched' = <<>> /\ active_downloads' = act1)
                   /\ q \in active_queues =>
                         /\ active_downloads' = act1 \cup Ids(dispatched')
                         /\ \A k \in DOMAIN dispatched' :
                               dispatched'[k].queue = q
          ]_vars

(***************************************************************************)
(*          The scheduler when the global cap is below the queue caps      *)
(***************************************************************************)
\* values of config["max_concurrent_downloads"] one queue can exhaust
StarveGlobalCaps == {1, 2}

\* a persisted history of two pending items in Q1 and one in Q2
StarveHistory == <<NewItem(1, "Q1"), NewItem(2, "Q1"), NewItem(3, "Q2")>>

\* a session that starts from the queues of Scenario D, this history and a
\* smaller global cap
InitStarve ==
    /\ \E c1 \in ScenarioCaps, c2 \in ScenarioCaps :
          queues = [n \in {MainQueue} \cup ScenarioQueues |->
                      NewSettings(IF n = "Q1" THEN c1
                                  ELSE IF n = "Q2" THEN c2 ELSE DefaultQueueCap)]
    /\ legacy = FALSE
    /\ active_queues = {}
    /\ active_downloads = {}
    /\ max_concurrent_global \in StarveGlobalCaps
    /\ timers = {}
    /\ downloads = StarveHistory
    /\ nextId = Len(StarveHistory)
    /\ edits = 0
    /\ dispatched = <<>>
    /\ lastOp = Op("init", None, None)
    /\ InitIdle
    /\ InitNoRegistry
    /\ InitNoYt
    /\ InitNoHttp /\ InitNoPrep /\ InitNoNet /\ InitNoMon

\* every in-flight download eventually completes: the worker of each
\* dispatched item reports to update_download_status
SpecStarve ==
    /\ InitStarve
    /\ [][NextScenario]_vars
    /\ \A i \in DOMAIN StarveHistory : WF_vars(Ends(i))

\* queue n is active, holds an eligible item, and _process_queue(n) would
\* start at least one item: its own cap and the global cap have room
Waiting(n) ==
    /\ n \in active_queues
    /\ EligibleOf(n) # {}
    /\ CanStart(queues, legacy, downloads, active_downloads, n) > 0

\* C38: no queue starves. An active queue that holds an eligible item and
\* has room under its own cap and the global cap is never left with no
\* download in flight, whose completion is the only step that dispatches
\* without a further call of start_queue; and from every state in which it
\* waits, one of its items is eventually dispatched unless the queue is
\* stopped.
C38_NoStarvation ==
    /\ [](\A n \in get_queues : Waiting(n) => active_downloads # {})
    /\ \A n \in ScenarioQueues :
          Waiting(n) ~> (\/ \E k \in DOMAIN dispatched : dispatched[k].queue = n
                         \/ n \notin active_queues)

(***************************************************************************)
(*            Properties of the counters of the segmented download         *)
(***************************************************************************)
\* the first n bytes of the segment, from its start, have been written to
\* the part file
WrittenUpTo(seg, n) ==
    \A o \in (seg.start + 1)..(seg.start + n) :
        o <= part_file.size /\ part_file.data[o] # Hole

\* C39: while the part file exists, the downloaded counter of every segment
\* counts only bytes of the segment that f.write has put into the part
\* file: this holds for the counters in memory, which a save_state of any
\* thread may copy at any moment, and for the counters of every snapshot in
\* the state file; a worker of a resumed run starts at a position before
\* which every byte of its segment is written.
C39_CounterBehindWrite ==
    /\ (pc = "workers" /\ part_file.exists) =>
          \A k \in DOMAIN segments : WrittenUpTo(segments[k], segments[k].downloaded)
    /\ (state_file.exists /\ ~state_file.torn /\ part_file.exists) =>
          \A k \in DOMAIN state_file.segments :
             WrittenUpTo(state_file.segments[k], state_file.segments[k].downloaded)
    /\ \A i \in DOMAIN workers :
          (pc = "workers" /\ workers[i].pc \in {"stream", "write", "count"}) =>
             WrittenUpTo(segments[i], workers[i].first - segments[i].start)

\* a resumed run whose worker starts behind bytes the first run wrote, with
\* a snapshot on disk that counts them
C39_Witness ==
    /\ runs = 2
    /\ resume_log = "resumed"
    /\ pc = "workers"
    /\ \E i \in DOMAIN workers :
          /\ workers[i].pc = "stream"
          /\ workers[i].first > segments[i].start
          /\ state_file.exists /\ ~state_file.torn
          /\ state_file.segments[i].downloaded > 0
          /\ ~state_file.segments[i].finished

(***************************************************************************)
(*                  Properties of a download of size zero                  *)
(***************************************************************************)
\* C32: a resource of zero bytes is completed without a range request: no
\* worker streams, and when start() has ended after a successful prepare
\* the empty target file exists, no part file and no state file remain and
\* the one completion callback reports success; a resource that has content
\* is never reported as a success with an empty target file, whether or not
\* the server declared its size.
C32_EmptyDownload ==
    /\ (srv_size = 0 /\ pc = "workers") =>
          \A k \in DOMAIN workers : workers[k].pc \in {"queued", "exit"}
    /\ (srv_size = 0 /\ pc = "done" /\ workers # <<>>) =>
          /\ done_cb = <<TRUE>>
          /\ target_file.exists /\ target_file.size = 0
          /\ ~part_file.exists
          /\ ~state_file.exists
    /\ (srv_size > 0 /\ pc = "done" /\ workers # <<>> /\ done_cb = <<TRUE>>) =>
          target_file.size > 0

(***************************************************************************)
(*        Part VI : the URL and the file names of one Downloader           *)
(***************************************************************************)
\* a URL is the text the caller passes, cut at "://" and at "/"; a path is
\* its components, whether it starts at the root, and the suffixes appended
\* to its last component
UrlTexts ==
    {<<"example.com", "/", "a.bin">>,
     <<"https", "://", "example.com", "/", "a.bin">>,
     <<"http", "://", "example.com", "/", "a.bin">>,
     <<"ftp", "://", "example.com", "/", "a.bin">>,
     <<"sftp", "://", "example.com", "/", "a.bin">>,
     <<"HTTPS", "://", "example.com", "/", "a.bin">>,
     <<"file", "://", "tmp", "/", "a.bin">>}
AbsPath(parts) == [abs |-> TRUE, parts |-> parts, suffix |-> <<>>]
RelPath(parts) == [abs |-> FALSE, parts |-> parts, suffix |-> <<>>]
SaveDirs == {AbsPath(<<"home", "dl">>), AbsPath(<<"srv">>)}
\* the file names a Content-Disposition header can carry; NoPath: no header
DispositionNames ==
    {NoPath, RelPath(<<"b.bin">>), RelPath(<<"..", "b.bin">>),
     RelPath(<<"sub", "b.bin">>), AbsPath(<<"etc", "b.bin">>)}

\* text.startswith(tuple of scheme + "://")
StartsWithScheme(text, schemes) ==
    Len(text) >= 2 /\ text[1] \in schemes /\ text[2] = "://"

\* prepare: the URLs that are left as they are
KnownProtocol(text) == StartsWithScheme(text, {"http", "https", "ftp"})

\* prepare: the URLs it refuses with ValueError
IsBrowserInternal(text) ==
    StartsWithScheme(text, {"chrome", "about", "file", "chrome-extension",
                            "moz-extension"})

\* prepare: self.url after the protocol check
WithProtocol(text) ==
    IF KnownProtocol(text) THEN text ELSE <<"https", "://">> \o text

\* Path(url.split("?")[0]).name
get_filename_from_url(text) == RelPath(<<text[Len(text)]>>)

\* os.path.join(dir, name): an absolute name replaces the directory
join(dir, name) ==
    IF name.abs THEN name ELSE [dir EXCEPT !.parts = dir.parts \o name.parts]

\* f"{path}.part"
PartOf(path) == [path EXCEPT !.suffix = Append(path.suffix, ".part")]

\* update_filenames(real_name): the two file names after the call
update_filenames(real_name, old_filename, old_temp, dir) ==
    IF real_name # NoPath /\ join(dir, real_name) # old_filename
    THEN [filename |-> join(dir, real_name),
          temp_filename |-> PartOf(join(dir, real_name))]
    ELSE [filename |-> old_filename, temp_filename |-> old_temp]

\* Downloader(url, save_dir): the names derived from the URL
Construct(u, dir) ==
    /\ prep_pc = "idle"
    /\ prep_pc' = "constructed"
    /\ url_text' = u
    /\ save_dir' = dir
    /\ filename' = join(dir, get_filename_from_url(u))
    /\ temp_filename' = PartOf(join(dir, get_filename_from_url(u)))
    /\ UNCHANGED part_path
    /\ UNCHANGED <<varsQ, varsDL, varsReg, varsYt, varsHttp, varsNet, varsMon>>

\* prepare() of a download that has no resume state: real_name is the file
\* name of the Content-Disposition header of the probe response, exists is
\* os.path.exists(real_name), open_ok is FALSE when open(temp_filename, "wb")
\* raises OSError
prepare(real_name, exists, open_ok) ==
    /\ prep_pc = "constructed"
    /\ IF IsBrowserInternal(url_text)
       THEN /\ prep_pc' = "raised"
            /\ UNCHANGED <<url_text, filename, temp_filename, part_path>>
       ELSE /\ url_text' = WithProtocol(url_text)
            /\ IF real_name # NoPath /\ exists
               THEN /\ prep_pc' = "refused"
                    /\ UNCHANGED <<filename, temp_filename, part_path>>
               ELSE LET names == update_filenames(real_name, filename,
                                                  temp_filename, save_dir)
                    IN /\ filename' = names.filename
                       /\ temp_filename' = names.temp_filename
                       /\ prep_pc' = IF open_ok THEN "prepared" ELSE "refused"
                       /\ part_path' = IF open_ok THEN names.temp_filename
                                       ELSE part_path
    /\ UNCHANGED save_dir
    /\ UNCHANGED <<varsQ, varsDL, varsReg, varsYt, varsHttp, varsNet, varsMon>>

NextPrep ==
    \/ \E u \in UrlTexts, dir \in SaveDirs : Construct(u, dir)
    \/ \E real_name \in DispositionNames, exists \in BOOLEAN, open_ok \in BOOLEAN :
          prepare(real_name, exists, open_ok)

InitPrep ==
    InitUnused /\ InitIdle /\ InitNoRegistry /\ InitNoYt /\ InitNoHttp
       /\ InitNoPrep /\ InitNoNet /\ InitNoMon

SpecPrep == InitPrep /\ [][NextPrep]_vars

(***************************************************************************)
(*                Properties of the URL and the file names                 *)
(***************************************************************************)
\* os.path.normpath of an absolute path: ".." leaves the last directory
RECURSIVE Norm(_)
Norm(parts) ==
    IF parts = <<>> THEN <<>>
    ELSE LET init == Norm(SubSeq(parts, 1, Len(parts) - 1))
         IN IF parts[Len(parts)] = ".."
            THEN (IF init = <<>> THEN <<>> ELSE SubSeq(init, 1, Len(init) - 1))
            ELSE Append(init, parts[Len(parts)])

\* the directory a file of this path lies in
DirOf(path) == SubSeq(Norm(path.parts), 1, Len(Norm(path.parts)) - 1)

\* C31: when prepare has created the part file, the part file and the
\* target file lie directly inside save_dir, whatever file name the
\* Content-Disposition header carried.
C31_NamesInsideSaveDir ==
    prep_pc = "prepared" =>
        /\ DirOf(part_path) = Norm(save_dir.parts)
        /\ DirOf(filename) = Norm(save_dir.parts)
        /\ Len(Norm(filename.parts)) = Len(Norm(save_dir.parts)) + 1

\* the text holds a scheme separator
HasScheme(text) == \E k \in DOMAIN text : text[k] = "://"

\* C33: prepare puts https:// in front of a URL that holds no scheme
\* separator, and leaves every URL that carries a scheme as it is.
C33_PrefixOnlyWithoutScheme ==
    [][(prep_pc = "constructed" /\ prep_pc' # "raised") =>
          url_text' = IF HasScheme(url_text) THEN url_text
                      ELSE <<"https", "://">> \o url_text
      ]_vars

(***************************************************************************)
(*                    Part VII : the network manager                       *)
(***************************************************************************)
\* ---- bounds of the explored inputs ----
MaxRetries == 3         \* largest max_retries argument
MaxCallbacks == 2       \* add_state_callback calls
MaxNotified == 4        \* callback calls after which no check is explored

\* the exceptions retry_with_backoff catches
ConnectionClass == {"OSError", "ConnectionError", "TimeoutError"}
\* the outcomes of a call of func: a result, or an exception
FuncErrors == ConnectionClass \cup {"ValueError"}
FuncResults == {"Success"}
initial_delay == 1
backoff_factor == 2

\* the value of delay in loop turn a
RECURSIVE Delay(_)
Delay(a) == IF a = 0 THEN initial_delay ELSE Delay(a - 1) * backoff_factor

\* ConnectionState of a check result
StateOf(online) == IF online THEN "online" ELSE "offline"

\* (mutation of NotifyNeeded: the callbacks are called after every check)
NotifyNeeded_always(new_state, current) == TRUE

\* _notify_state_change: the test new_state != self._state
NotifyNeeded(new_state, current) == new_state # current

\* the callback calls of one _notify_state_change, in list order; a
\* callback that raises is logged and the loop goes on
CallbackCalls(cbs, new_state) ==
    [k \in 1..Len(cbs) |-> [callback |-> k, state |-> new_state]]

\* NetworkManager.add_state_callback(callback)
add_state_callback(raises) ==
    /\ Len(_state_callbacks) < MaxCallbacks
    /\ _state_callbacks' = Append(_state_callbacks, [raises |-> raises])
    /\ UNCHANGED <<_state, notified, retry_pc, retry_max, attempt, func_calls,
                   retry_result, slept>>
    /\ UNCHANGED <<varsQ, varsDL, varsReg, varsYt, varsHttp, varsPrep, varsMon>>

\* NetworkManager.check_connectivity(): online is FALSE when
\* socket.create_connection raises OSError
check_connectivity(online) ==
    /\ Len(notified) < MaxNotified
    /\ IF NotifyNeeded(StateOf(online), _state)
       THEN /\ _state' = StateOf(online)
            /\ notified' = notified \o CallbackCalls(_state_callbacks, StateOf(online))
       ELSE UNCHANGED <<_state, notified>>
    /\ UNCHANGED <<_state_callbacks, retry_pc, retry_max, attempt, func_calls,
                   retry_result, slept>>
    /\ UNCHANGED <<varsQ, varsDL, varsReg, varsYt, varsHttp, varsPrep, varsMon>>

\* (mutation of ShouldRetry: the last attempt is given up)
ShouldRetry_early(a, n) == a < n - 2

\* retry_with_backoff: the test attempt < max_retries - 1
ShouldRetry(a, n) == a < n - 1

\* retry_with_backoff(func, max_retries = n) up to the first call of func;
\* with n = 0 the loop body never runs and the call returns None
RetryStart(n) ==
    /\ retry_pc = "idle"
    /\ retry_max' = n
    /\ attempt' = 0
    /\ func_calls' = <<>>
    /\ slept' = <<>>
    /\ IF n > 0
       THEN retry_pc' = "calling" /\ UNCHANGED retry_result
       ELSE /\ retry_pc' = "returned"
            /\ retry_result' = [kind |-> "returned", value |-> "None"]
    /\ UNCHANGED <<_state, _state_callbacks, notified>>
    /\ UNCHANGED <<varsQ, varsDL, varsReg, varsYt, varsHttp, varsPrep, varsMon>>

\* func returns v: retry_with_backoff returns it
FuncReturns(v) ==
    /\ retry_pc = "calling"
    /\ func_calls' = Append(func_calls, "ok")
    /\ retry_result' = [kind |-> "returned", value |-> v]
    /\ retry_pc' = "returned"
    /\ UNCHANGED <<_state, _state_callbacks, notified, retry_max, attempt, slept>>
    /\ UNCHANGED <<varsQ, varsDL, varsReg, varsYt, varsHttp, varsPrep, varsMon>>

\* func raises e: an exception of the connection class is retried after a
\* sleep, or raised again at the last attempt; any other exception leaves
\* retry_with_backoff
FuncRaises(e) ==
    /\ retry_pc = "calling"
    /\ func_calls' = Append(func_calls, e)
    /\ IF e \in ConnectionClass /\ ShouldRetry(attempt, retry_max)
       THEN /\ slept' = Append(slept, Delay(attempt))
            /\ attempt' = attempt + 1
            /\ UNCHANGED <<retry_pc, retry_result>>
       ELSE /\ retry_result' = [kind |-> "raised", value |-> e]
            /\ retry_pc' = "raised"
            /\ UNCHANGED <<attempt, slept>>
    /\ UNCHANGED <<_state, _state_callbacks, notified, retry_max>>
    /\ UNCHANGED <<varsQ, varsDL, varsReg, varsYt, varsHttp, varsPrep, varsMon>>

NextNet ==
    \/ \E raises \in BOOLEAN : add_state_callback(raises)
    \/ \E online \in BOOLEAN : check_connectivity(online)
    \/ \E n \in 0..MaxRetries : RetryStart(n)
    \/ \E v \in FuncResults : FuncReturns(v)
    \/ \E e \in FuncErrors : FuncRaises(e)

InitNet ==
    InitUnused /\ InitIdle /\ InitNoRegistry /\ InitNoYt /\ InitNoHttp
       /\ InitNoPrep /\ InitNoNet /\ InitNoMon

SpecNet == InitNet /\ [][NextNet]_vars

(***************************************************************************)
(*                    Properties of the network manager                    *)
(***************************************************************************)
\* retry_with_backoff has ended, each call of func it made is in func_calls
RetryEnded == retry_pc \in {"returned", "raised"}
AllConnectionErrors ==
    \A k \in DOMAIN func_calls : func_calls[k] \in ConnectionClass

C35_CallbackPerChange ==
    /\ [][IF _state' # _state
          THEN notified' = notified \o CallbackCalls(_state_callbacks, _state')
          ELSE notified' = notified]_vars
    /\ [][\A online \in BOOLEAN :
             check_connectivity(online) => _state' = StateOf(online)]_vars

\* two callbacks, the first one raising, have seen the state go online and
\* then offline
C35_Witness ==
    /\ Len(_state_callbacks) = 2
    /\ _state_callbacks[1].raises
    /\ notified = <<[callback |-> 1, state |-> "online"],
                    [callback |-> 2, state |-> "online"],
                    [callback |-> 1, state |-> "offline"],
                    [callback |-> 2, state |-> "offline"]>>

\* ==========================================================================
\* Part VIII : SegmentMonitor (segment_monitor.py) over the list of segments
\* a Downloader hands to it.  Sizes are counted in units of 500,000 bytes:
\* min_split_size is 2 units and the threshold of a split is 4.
\* ==========================================================================

min_split_size == 2
\* (total_size, number of segments) of the lists handed to the monitor
MonitorCases == {<<11, 3>>, <<12, 3>>}
\* the average speeds the monitor loop can have measured
SpeedValues == {0, 1, 5}

\* (mutation of ShortenedEnd: the split segment keeps the byte at split_point)
ShortenedEnd_overlap(split_point) == split_point

\* _split_segment: the new end of the segment that is split
ShortenedEnd(split_point) == split_point - 1

\* _split_segment: current_pos + remaining // 2
SplitPoint(segment, remaining) ==
    segment.start + segment.downloaded + (remaining \div 2)

\* _split_segment: the bytes of the segment not yet downloaded
RemainingOf(segment) == ExpectedSize(segment) - segment.downloaded

\* _split_segment of the segment at position k of the list segs
_split_segment(segs, k) ==
    LET segment == segs[k]
        remaining == RemainingOf(segment)
        split_point == SplitPoint(segment, remaining)
        new_segment == [index |-> Len(segs),
                        start |-> split_point,
                        end |-> segment.end,
                        downloaded |-> 0,
                        finished |-> FALSE]
    IN IF remaining < min_split_size * 2
       THEN [segments |-> segs,
             call |-> [index |-> segment.index, remaining |-> remaining,
                       result |-> FALSE]]
       ELSE [segments |-> Append([segs EXCEPT ![k].end = ShortenedEnd(split_point)],
                                 new_segment),
             call |-> [index |-> segment.index, remaining |-> remaining,
                       result |-> TRUE]]

\* positions of the list, in order, as a sequence
RECURSIVE PositionsIn(_, _)
PositionsIn(S, n) ==
    IF n = 0 THEN <<>>
    ELSE IF n \in S THEN Append(PositionsIn(S, n - 1), n)
         ELSE PositionsIn(S, n - 1)

\* _optimize_segments: sum(s[1] for s in speeds), over the positions in S
RECURSIVE SumOver(_, _)
SumOver(speeds, S) ==
    IF S = {} THEN 0
    ELSE LET k == CHOOSE x \in S : TRUE
         IN speeds[k] + SumOver(speeds, S \ {k})

\* _optimize_segments: the slow entries of speeds, in the order of speeds
SlowSegments(speeds) ==
    LET S == DOMAIN speeds
        total_speed == SumOver(speeds, S)
        slow == {k \in S : 2 * speeds[k] * Cardinality(S) < total_speed
                           /\ speeds[k] > 0}
        top == IF S = {} THEN 0 ELSE CHOOSE m \in S : \A k \in S : k <= m
    IN IF total_speed = 0 THEN <<>> ELSE PositionsIn(slow, top)

\* _optimize_segments: finished segments count as idle threads
IdleCapacity(segs) == Cardinality({k \in DOMAIN segs : segs[k].finished})

\* _optimize_segments: the position of the segment with the given index
SegmentAt(segs, idx) ==
    IF \E k \in DOMAIN segs : segs[k].index = idx
    THEN CHOOSE k \in DOMAIN segs :
            /\ segs[k].index = idx
            /\ \A j \in 1..(k - 1) : segs[j].index # idx
    ELSE 0

\* _optimize_segments: the loop over slow_segments[:idle_capacity]
RECURSIVE SplitAll(_, _, _)
SplitAll(segs, calls, todo) ==
    IF todo = <<>> THEN [segments |-> segs, calls |-> calls]
    ELSE LET k == SegmentAt(segs, todo[1])
         IN IF k = 0 THEN SplitAll(segs, calls, Tail(todo))
            ELSE LET r == _split_segment(segs, k)
                 IN SplitAll(r.segments, Append(calls, r.call), Tail(todo))

\* the fields of the Downloader the monitor does not read
UNCHANGED_Downloader ==
    UNCHANGED <<srv_size, srv_ranges, worker_count, running, total_size,
                downloaded_total, part_file, target_file, state_file, pc,
                workers, done_cb, runs, url, progress_cb, item_status,
                resume_log>>

\* _monitor_loop: the sets of segments a turn can have a speed for, which
\* are unfinished segments seen by the turn before; two or more are needed
MeasuredSets(segs) ==
    {S \in SUBSET {k \in DOMAIN segs : ~segs[k].finished} : Cardinality(S) >= 2}

\* _monitor_loop, one turn with at least two measured speeds: speeds gives
\* the average speed of some unfinished segments, by position in the list
_optimize_segments(speeds) ==
    /\ Cardinality(DOMAIN speeds) >= 2
    /\ \A k \in DOMAIN speeds : ~segments[k].finished
    /\ LET slow == SlowSegments(speeds)
           taken == SubSeq(slow, 1, Min(Len(slow), IdleCapacity(segments)))
           todo == [j \in DOMAIN taken |-> segments[taken[j]].index]
       IN \E r \in {SplitAll(segments, <<>>, todo)} :
             /\ segments' = r.segments
             /\ split_calls' = r.calls
    /\ UNCHANGED_Downloader
    /\ UNCHANGED <<varsQ, varsReg, varsYt, varsHttp, varsPrep, varsNet>>

\* download_segment: n more bytes of the range of segment k are written
SegmentProgress(k, n) ==
    /\ k \in DOMAIN segments
    /\ ~segments[k].finished
    /\ n \in 1..RemainingOf(segments[k])
    /\ segments' = [segments EXCEPT ![k].downloaded = @ + n]
    /\ UNCHANGED_Downloader
    /\ UNCHANGED <<varsQ, varsReg, varsYt, varsHttp, varsPrep, varsNet, varsMon>>

\* download_segment: the stream of segment k has delivered its range
SegmentFinished(k) ==
    /\ k \in DOMAIN segments
    /\ ~segments[k].finished
    /\ RemainingOf(segments[k]) = 0
    /\ segments' = [segments EXCEPT ![k].finished = TRUE]
    /\ UNCHANGED_Downloader
    /\ UNCHANGED <<varsQ, varsReg, varsYt, varsHttp, varsPrep, varsNet, varsMon>>

NextMonitor ==
    \/ \E k \in DOMAIN segments : \E n \in 1..total_size : SegmentProgress(k, n)
    \/ \E k \in DOMAIN segments : SegmentFinished(k)
    \/ \E S \in MeasuredSets(segments) : \E speeds \in [S -> SpeedValues] :
          _optimize_segments(speeds)

\* a Downloader after prepare, its list handed to a new SegmentMonitor
InitMonitor ==
    /\ \E c \in MonitorCases :
          /\ srv_size = c[1] /\ total_size = c[1] /\ worker_count = c[2]
          /\ segments = NewSegments(c[1], c[2])
    /\ srv_ranges = TRUE
    /\ url = [scheme |-> "https", ext |-> "bin"]
    /\ progress_cb = <<>>
    /\ item_status = "Downloading..."
    /\ resume_log = "not loaded"
    /\ running = TRUE
    /\ downloaded_total = 0
    /\ part_file = NoFile
    /\ target_file = NoFile
    /\ state_file = NoState
    /\ pc = "workers"
    /\ workers = <<>>
    /\ done_cb = <<>>
    /\ runs = 1
    /\ InitUnused /\ InitNoRegistry /\ InitNoYt /\ InitNoHttp
    /\ InitNoPrep /\ InitNoNet /\ InitNoMon

SpecMonitor == InitMonitor /\ [][NextMonitor]_vars

\* the segments that hold byte b
Holders(segs, b) == {k \in DOMAIN segs : segs[k].start <= b /\ b <= segs[k].end}

\* every byte of the file is in exactly one segment, and indexes are fresh
CoversOnce(segs, total) ==
    /\ \A b \in 0..(total - 1) : Cardinality(Holders(segs, b)) = 1
    /\ \A k \in DOMAIN segs : segs[k].start >= 0 /\ segs[k].end < total
    /\ \A j, k \in DOMAIN segs : j # k => segs[j].index # segs[k].index

\* the segment at position k has the range and the index it had
BoundsKept(k) ==
    /\ segments'[k].start = segments[k].start
    /\ segments'[k].end = segments[k].end
    /\ segments'[k].index = segments[k].index

\* the segment at position k was shortened, and a new segment at the end of
\* the list took the rest of its range
SplitAt(k) ==
    LET old == segments[k]
        new == segments'[k]
    IN /\ new = [old EXCEPT !.end = new.end]
       /\ old.start + old.downloaded <= new.end + 1
       /\ new.end < old.end
       /\ \E j \in (Len(segments) + 1)..Len(segments') :
             segments'[j] = [index |-> j - 1,
                             start |-> new.end + 1,
                             end |-> old.end,
                             downloaded |-> 0,
                             finished |-> FALSE]

\* C40: the segment list stays a partition of the bytes of the file with
\* distinct indexes. Every step keeps the range of a segment or shortens it
\* to end just before a new segment that runs to the old end, has nothing
\* downloaded, is not finished and has a fresh index; every new segment
\* comes from such a split; a segment with less than twice min_split_size
\* remaining keeps its range; and if every segment had downloaded <= length
\* before the step, every segment has it after the step.
C40_SplitKeepsPartition ==
    /\ [](CoversOnce(segments, total_size))
    /\ [][/\ Len(segments') >= Len(segments)
          /\ \A k \in DOMAIN segments :
                /\ BoundsKept(k) \/ SplitAt(k)
                /\ RemainingOf(segments[k]) < 2 * min_split_size
                      => BoundsKept(k)
          /\ Len(segments') - Len(segments) =
                Cardinality({k \in DOMAIN segments : ~BoundsKept(k)})
          /\ (\A k \in DOMAIN segments :
                 segments[k].downloaded <= ExpectedSize(segments[k]))
             => \A k \in DOMAIN segments' :
                   segments'[k].downloaded <= ExpectedSize(segments'[k])]_vars

\* the third of three segments, with an odd rest of 5 units, was split while
\* the first one was finished: it keeps 2 units and the new segment, with
\* index 3, has the other 3
C40_Witness ==
    /\ total_size = 11
    /\ split_calls = <<[index |-> 2, remaining |-> 5, result |-> TRUE]>>
    /\ Len(segments) = 4
    /\ segments[1].finished
    /\ segments[3].start = 6 /\ segments[3].end = 7
    /\ segments[4] = [index |-> 3, start |-> 8, end |-> 10,
                      downloaded |-> 0, finished |-> FALSE]

====
